---- MODULE Spec2Model ----
(***************************************************************************)
(* bonsai: single-pass bytecode compiler (src/src/compiler.rs) and stack   *)
(* VM with closures (src/src/vm.rs), driven by run in src/src/main.rs.     *)
(*                                                                         *)
(* Indices are 0-based as in the source; TLA+ sequences are 1-based, so    *)
(* element i of a Vec v is v[i + 1].  usize values are kept as integers    *)
(* modulo 2^64 in their signed reading: a negative number stands for the   *)
(* wrapped value 2^64 + n, which is what a build without overflow checks   *)
(* produces for an underflowing subtraction.                               *)
(***************************************************************************)
EXTENDS Integers, Sequences, FiniteSets, TLC

(***************************************************************************)
(* Bounds of the model.                                                    *)
(***************************************************************************)
MaxSteps == 80
MaxFrames == 4
ManyLits == 257
FrameCap == 2

(***************************************************************************)
(* value.rs: Value                                                         *)
(***************************************************************************)
VNone == [tag |-> "None"]
VBool(b) == [tag |-> "Bool", b |-> b]
VInt(n) == [tag |-> "Int", n |-> n]
VFloat(x) == [tag |-> "Float", x |-> x]
VStr(s) == [tag |-> "Str", s |-> s]
VFunction(f) == [tag |-> "Function", f |-> f]
VClosure(c) == [tag |-> "Closure", c |-> c]
VHeapedData(cell) == [tag |-> "HeapedData", cell |-> cell]
VNative(name) == [tag |-> "Native", name |-> name]

(***************************************************************************)
(* f64.  The payload of a Float is the exact fraction n/d in lowest terms  *)
(* with d > 0; d = 0 is an infinity (n = 1 or -1) or NaN (n = 0).  The      *)
(* fractions the model computes with are exactly representable or stand    *)
(* for their nearest f64; the two zeros, which compare equal, are one      *)
(* value.                                                                  *)
(***************************************************************************)
Abs(n) == IF n < 0 THEN -n ELSE n
Sign(n) == IF n < 0 THEN -1 ELSE IF n > 0 THEN 1 ELSE 0

RECURSIVE GCD(_, _)
GCD(a, b) == IF b = 0 THEN a ELSE GCD(b, a % b)

F(n, d) ==
    IF d = 0 THEN [n |-> Sign(n), d |-> 0]
    ELSE LET g == GCD(Abs(n), Abs(d))
         IN [n |-> (Sign(d) * n) \div g, d |-> Abs(d) \div g]

NaN == [n |-> 0, d |-> 0]
IsNaN(a) == a.d = 0 /\ a.n = 0

\* x as f64
FromInt(i) == [n |-> i, d |-> 1]

FAdd(a, b) ==
    IF IsNaN(a) \/ IsNaN(b) THEN NaN
    ELSE IF a.d = 0 /\ b.d = 0 THEN (IF a.n = b.n THEN a ELSE NaN)
    ELSE IF a.d = 0 THEN a
    ELSE IF b.d = 0 THEN b
    ELSE F(a.n * b.d + b.n * a.d, a.d * b.d)

FNeg(a) == [n |-> -a.n, d |-> a.d]

FSub(a, b) == FAdd(a, FNeg(b))

FMul(a, b) == IF IsNaN(a) \/ IsNaN(b) THEN NaN ELSE F(a.n * b.n, a.d * b.d)

FDiv(a, b) ==
    IF IsNaN(a) \/ IsNaN(b) THEN NaN
    ELSE IF b.n = 0 THEN F(a.n * b.d, 0)
    ELSE F(a.n * b.d * Sign(b.n), a.d * Abs(b.n))

\* f64 ==: NaN equals nothing, itself included
FEq(a, b) == ~IsNaN(a) /\ ~IsNaN(b) /\ a = b

\* the digits after the point of r/d, r < d, at most k of them
RECURSIVE FracDigits(_, _, _)
FracDigits(r, d, k) ==
    IF r = 0 \/ k = 0 THEN ""
    ELSE ToString((r * 10) \div d) \o FracDigits((r * 10) % d, d, k - 1)

\* write!(f, "{}", x) for an f64, value.rs 68
DisplayFloat(a) ==
    IF a.d = 0 THEN (IF a.n = 0 THEN "NaN" ELSE IF a.n > 0 THEN "inf" ELSE "-inf")
    ELSE IF a.d = 1 THEN ToString(a.n)
    ELSE (IF a.n < 0 THEN "-" ELSE "") \o ToString(Abs(a.n) \div a.d) \o "."
            \o FracDigits(Abs(a.n) % a.d, a.d, 17)

\* a truthiness test that also counts None and a zero Float as falsey
is_falsey_zeroish(v) ==
    CASE v.tag = "Bool" -> ~v.b
      [] v.tag = "Int" -> v.n = 0
      [] v.tag = "Float" -> v.x.n = 0 /\ v.x.d = 1
      [] v.tag = "None" -> TRUE
      [] OTHER -> FALSE

is_falsey(v) ==
    CASE v.tag = "Bool" -> ~v.b
      [] v.tag = "Int" -> v.n = 0
      [] OTHER -> FALSE

(***************************************************************************)
(* common.rs: Op.  The enum of src/src/common.rs gives the discriminants   *)
(* of the opcodes it lists; vm.rs and compiler.rs use four more (IsEqual,  *)
(* SetUpvalue, GetUpvalue, MakeClosure) and call RelJump Jump.             *)
(***************************************************************************)
OpReturn == 0
OpPop == 1
OpLoadTrue == 2
OpNegate == 3
OpAdd == 4
OpSubtract == 5
OpMultiply == 6
OpDivide == 7
OpLoadConstant == 8
OpSetGlobal == 9
OpGetGlobal == 10
OpSetLocal == 11
OpGetLocal == 12
OpCall == 13
OpJump == 14
OpAbsJump == 15
OpJumpIfFalse == 16
OpIsEqual == 17
OpSetUpvalue == 18
OpGetUpvalue == 19
OpMakeClosure == 20

AsU8(x) == x % 256

(***************************************************************************)
(* common.rs: Chunk                                                        *)
(***************************************************************************)
Chunk_new(code, constants) == [code |-> code, constants |-> constants]

read_byte_double(code, i) == code[i + 1] * 256 + code[i + 2]

write_byte_double(code, i, b) ==
    [code EXCEPT ![i + 1] = (b \div 256) % 256, ![i + 2] = b % 256]

(***************************************************************************)
(* value.rs: Function.  lets is a history field that is not in the source: *)
(* for every Let compiled into the function it records the code offset     *)
(* just after the initializer and the local index the name was given.      *)
(* marks is a history field as well: the code offsets the compiler held in *)
(* its local variables while it compiled each If, Loop, Continue and Break *)
(* of the function.                                                        *)
(***************************************************************************)
Function_new(arity, upvalue_count, chunk) ==
    [arity |-> arity, upvalue_count |-> upvalue_count, chunk |-> chunk,
     lets |-> <<>>, marks |-> <<>>]

(***************************************************************************)
(* common.rs: Core                                                         *)
(***************************************************************************)
Lit(v) == [k |-> "Lit", v |-> v]
Lambda(args, body) == [k |-> "Lambda", args |-> args, body |-> body]
Let(name, value) == [k |-> "Let", name |-> name, value |-> value]
Set(name, value) == [k |-> "Set", name |-> name, value |-> value]
Get(name) == [k |-> "Get", name |-> name]
If(c, t, e) == [k |-> "If", c |-> c, t |-> t, e |-> e]
Loop(body) == [k |-> "Loop", body |-> body]
Continue == [k |-> "Continue"]
Break == [k |-> "Break"]
Block(exprs) == [k |-> "Block", exprs |-> exprs]
Call(name, args) == [k |-> "Call", callee |-> name, args |-> args]
Return(expr) == [k |-> "Return", expr |-> expr]

(***************************************************************************)
(* compiler.rs: CCtx, Compiler.  panicked records that a panic! (or an     *)
(* index or arithmetic panic) aborted compilation.  log and                *)
(* globals_defined are history fields that are not in the source: log      *)
(* records how each Get, Set, Break and Continue was resolved, and         *)
(* globals_defined the names for which define_var emitted SetGlobal.       *)
(***************************************************************************)
CCtx_new ==
    [function |-> Function_new(0, 0, Chunk_new(<<>>, <<>>)),
     locals |-> <<>>,
     upvalues |-> <<>>,
     scope_depth |-> 0,
     continues |-> <<>>,
     breaks |-> <<>>]

Compiler_new ==
    [ctxs |-> <<CCtx_new>>, current |-> 0, panicked |-> FALSE, log |-> <<>>,
     globals_defined |-> {}]

Panic(cc) == [cc EXCEPT !.panicked = TRUE]

Logged(cc, ev) == IF cc.panicked THEN cc ELSE [cc EXCEPT !.log = Append(@, ev)]

CodeLen(cc) == Len(cc.ctxs[cc.current + 1].function.chunk.code)

Marked(cc, m) ==
    IF cc.panicked THEN cc
    ELSE [cc EXCEPT !.ctxs[cc.current + 1].function.marks = Append(@, m)]

add_constant(cc, x) ==
    IF cc.panicked THEN cc
    ELSE [cc EXCEPT !.ctxs[cc.current + 1].function.chunk.constants = Append(@, x)]

\* the index add_constant returns: constants.len() - 1 after the push
ConstIdx(cc) == Len(cc.ctxs[cc.current + 1].function.chunk.constants) - 1

add_byte(cc, b) ==
    IF cc.panicked THEN cc
    ELSE [cc EXCEPT !.ctxs[cc.current + 1].function.chunk.code = Append(@, b)]

add_bytes(cc, b1, b2) == add_byte(add_byte(cc, b1), b2)

\* a patch that is never written: the placeholder stays in the code
Patch_skipped(cc, i, b) == cc

Patch(cc, i, b) ==
    IF cc.panicked THEN cc
    ELSE [cc EXCEPT !.ctxs[cc.current + 1].function.chunk.code =
                         write_byte_double(@, i, b)]

RECURSIVE FindLast(_, _, _)
FindLast(locals, name, i) ==
    IF i < 0 THEN -1
    ELSE IF locals[i + 1].name = name THEN i
    ELSE FindLast(locals, name, i - 1)

\* Option<usize>: -1 is None
resolve_local(cc, name, ctx_i) ==
    FindLast(cc.ctxs[ctx_i + 1].locals, name, Len(cc.ctxs[ctx_i + 1].locals) - 1)

UpLocal(i) == [kind |-> "Local", idx |-> i]
UpNonLocal(i) == [kind |-> "NonLocal", idx |-> i]

RECURSIVE FindUp(_, _, _)
FindUp(upvalues, up_insert, i) ==
    IF i >= Len(upvalues) THEN -1
    ELSE IF upvalues[i + 1].kind = up_insert.kind /\ upvalues[i + 1].idx = up_insert.idx
         THEN i
    ELSE FindUp(upvalues, up_insert, i + 1)

\* the call of add_upvalue that took before to r, for the log
UpEvent(before, r, up_insert, ctx_i) ==
    [ev |-> "Up", depth |-> ctx_i, ins |-> up_insert, idx |-> r.idx,
     before |-> [upvalues |-> before.ctxs[ctx_i + 1].upvalues,
                 count |-> before.ctxs[ctx_i + 1].function.upvalue_count],
     after |-> [upvalues |-> r.cc.ctxs[ctx_i + 1].upvalues,
                count |-> r.cc.ctxs[ctx_i + 1].function.upvalue_count]]

\* an add_upvalue that registers every request anew
add_upvalue_always(cc, up_insert, ctx_i) ==
    LET r == [cc |-> [cc EXCEPT !.ctxs[ctx_i + 1].function.upvalue_count = @ + 1,
                                !.ctxs[ctx_i + 1].upvalues = Append(@, up_insert)],
              idx |-> cc.ctxs[ctx_i + 1].function.upvalue_count]
    IN [r EXCEPT !.cc = Logged(@, UpEvent(cc, r, up_insert, ctx_i))]

\* returns the compiler state and the index
add_upvalue(cc, up_insert, ctx_i) ==
    LET found == FindUp(cc.ctxs[ctx_i + 1].upvalues, up_insert, 0)
        r == IF found >= 0 THEN [cc |-> cc, idx |-> found]
             ELSE [cc |-> [cc EXCEPT !.ctxs[ctx_i + 1].function.upvalue_count = @ + 1,
                                     !.ctxs[ctx_i + 1].upvalues = Append(@, up_insert)],
                   idx |-> cc.ctxs[ctx_i + 1].function.upvalue_count]
    IN [r EXCEPT !.cc = Logged(@, UpEvent(cc, r, up_insert, ctx_i))]

\* a resolve_upvalue that registers a Local descriptor at every level
RECURSIVE resolve_upvalue_flat(_, _, _)
resolve_upvalue_flat(cc, name, ctx_i) ==
    IF Len(cc.ctxs) <= 1 THEN [cc |-> cc, idx |-> -1]
    ELSE IF ctx_i = 0 THEN [cc |-> Panic(cc), idx |-> -1]
    ELSE LET l == resolve_local(cc, name, ctx_i - 1)
         IN IF l >= 0
            THEN add_upvalue([cc EXCEPT !.ctxs[ctx_i].locals[l + 1].captured = TRUE],
                             UpLocal(l), ctx_i)
            ELSE LET r == resolve_upvalue_flat(cc, name, ctx_i - 1)
                 IN IF r.cc.panicked THEN r
                    ELSE IF r.idx >= 0 THEN add_upvalue(r.cc, UpLocal(r.idx), ctx_i)
                    ELSE [cc |-> r.cc, idx |-> -1]

\* ctx_i - 1 on usize 0 panics with overflow checks and otherwise wraps to
\* an index past the end of ctxs, which panics as well.
RECURSIVE resolve_upvalue(_, _, _)
resolve_upvalue(cc, name, ctx_i) ==
    IF Len(cc.ctxs) <= 1 THEN [cc |-> cc, idx |-> -1]
    ELSE IF ctx_i = 0 THEN [cc |-> Panic(cc), idx |-> -1]
    ELSE LET l == resolve_local(cc, name, ctx_i - 1)
         IN IF l >= 0
            THEN add_upvalue([cc EXCEPT !.ctxs[ctx_i].locals[l + 1].captured = TRUE],
                             UpLocal(l), ctx_i)
            ELSE LET r == resolve_upvalue(cc, name, ctx_i - 1)
                 IN IF r.cc.panicked THEN r
                    ELSE IF r.idx >= 0 THEN add_upvalue(r.cc, UpNonLocal(r.idx), ctx_i)
                    ELSE [cc |-> r.cc, idx |-> -1]

RECURSIVE FindStr(_, _, _)
FindStr(consts, name, i) ==
    IF i >= Len(consts) THEN -1
    ELSE IF consts[i + 1].tag = "Str" /\ consts[i + 1].s = name THEN i
    ELSE FindStr(consts, name, i + 1)

resolve_global(cc, name) ==
    FindStr(cc.ctxs[cc.current + 1].function.chunk.constants, name, 0)

add_local(cc, name, ctx_i) ==
    [cc EXCEPT !.ctxs[ctx_i + 1].locals =
        Append(@, [name |-> name, depth |-> cc.ctxs[ctx_i + 1].scope_depth,
                   captured |-> FALSE])]

begin_scope(cc) ==
    IF cc.panicked THEN cc
    ELSE [cc EXCEPT !.ctxs[cc.current + 1].scope_depth = @ + 1]

RECURSIVE PopLocals(_)
PopLocals(cc) ==
    LET ctx == cc.ctxs[cc.current + 1]
    IN IF Len(ctx.locals) = 0 THEN cc
       ELSE IF ctx.locals[Len(ctx.locals)].depth <= ctx.scope_depth THEN cc
       ELSE PopLocals([add_byte(cc, OpPop) EXCEPT
                          !.ctxs[cc.current + 1].locals = SubSeq(@, 1, Len(@) - 1)])

\* an end_scope that only lowers the depth
end_scope_keep(cc) ==
    IF cc.panicked THEN cc
    ELSE [cc EXCEPT !.ctxs[cc.current + 1].scope_depth = @ - 1]

\* scope_depth -= 1 panics or wraps at 0; compile only calls end_scope
\* after begin_scope, so the depth is positive here.
end_scope(cc) ==
    IF cc.panicked THEN cc
    ELSE PopLocals([cc EXCEPT !.ctxs[cc.current + 1].scope_depth = @ - 1])

declare_var(cc, name) ==
    IF cc.panicked THEN cc
    ELSE IF cc.ctxs[cc.current + 1].scope_depth > 0
         THEN add_local(cc, name, cc.current)
         ELSE cc

define_var(cc, name) ==
    IF cc.panicked THEN cc
    ELSE IF cc.ctxs[cc.current + 1].scope_depth = 0
         THEN LET c1 == add_byte(cc, OpSetGlobal)
                  c2 == add_constant(c1, VStr(name))
                  c3 == add_byte(c2, AsU8(ConstIdx(c2)))
              IN [c3 EXCEPT !.globals_defined = @ \cup {name}]
         ELSE cc

try_arithmetic_op(x) ==
    IF x.k = "Get"
    THEN CASE x.name = "==" -> OpIsEqual
           [] x.name = "+" -> OpAdd
           [] x.name = "-" -> OpSubtract
           [] x.name = "*" -> OpMultiply
           [] x.name = "/" -> OpDivide
           [] OTHER -> -1
    ELSE -1

RECURSIVE emit_upvalues(_, _, _)
emit_upvalues(cc, upvalues, i) ==
    IF i >= Len(upvalues) THEN cc
    ELSE emit_upvalues(
            add_bytes(cc, IF upvalues[i + 1].kind = "Local" THEN 1 ELSE 0,
                      AsU8(upvalues[i + 1].idx)),
            upvalues, i + 1)

RECURSIVE declare_args(_, _, _)
declare_args(cc, args, i) ==
    IF i >= Len(args) THEN cc
    ELSE declare_args(define_var(declare_var(cc, args[i + 1]), args[i + 1]), args, i + 1)

RECURSIVE patch_all(_, _, _, _)
patch_all(cc, idxs, target, i) ==
    IF i >= Len(idxs) THEN cc
    ELSE patch_all(Patch(cc, idxs[i + 1] + 1, target), idxs, target, i + 1)

\* the locals and upvalue descriptors of every open context, for the log
Snap(cc) ==
    [c \in 1..Len(cc.ctxs) |->
        [locals |-> cc.ctxs[c].locals, upvalues |-> cc.ctxs[c].upvalues]]

AnyLocal(cc, name) ==
    \E c \in 0..(Len(cc.ctxs) - 1) : resolve_local(cc, name, c) >= 0

RECURSIVE compile(_, _)
RECURSIVE compile_range(_, _, _, _)
RECURSIVE done(_)

compile_all(cc, exprs, i) == compile_range(cc, exprs, i, Len(exprs))

compile_Lit(cc, expr) ==
    LET c1 == add_constant(cc, expr.v)
        idx == AsU8(ConstIdx(c1))
    IN Logged(add_bytes(c1, OpLoadConstant, idx),
              [ev |-> "Lit", depth |-> cc.current, assigned |-> ConstIdx(c1),
               operand |-> idx])

compile_Lambda(cc, expr) ==
    LET c1 == [cc EXCEPT !.ctxs = Append(@, CCtx_new), !.current = @ + 1]
        c2 == [c1 EXCEPT !.ctxs[c1.current + 1].function.arity = Len(expr.args)]
        c3 == declare_args(begin_scope(c2), expr.args, 0)
        c4 == done(compile(c3, expr.body))
    IN IF c4.panicked THEN c4
       ELSE LET sub_ctx == c4.ctxs[c4.current + 1]
                c5 == [c4 EXCEPT !.ctxs = SubSeq(@, 1, Len(@) - 1), !.current = @ - 1]
                c6 == add_constant(c5, VFunction(sub_ctx.function))
                c7 == add_bytes(c6, OpMakeClosure, AsU8(ConstIdx(c6)))
                c8 == emit_upvalues(c7, sub_ctx.upvalues, 0)
            IN Logged(c8, [ev |-> "Lambda", depth |-> c5.current,
                           at |-> CodeLen(c6), assigned |-> ConstIdx(c6),
                           operand |-> AsU8(ConstIdx(c6)),
                           referred |-> c6.ctxs[c6.current + 1].function.chunk
                                          .constants[AsU8(ConstIdx(c6)) + 1],
                           upvalue_count |-> sub_ctx.function.upvalue_count,
                           pairs |-> (CodeLen(c8) - CodeLen(c7)) \div 2])

compile_Call(cc, expr) ==
    LET c1 == compile_all(cc, expr.args, 0)
        op == try_arithmetic_op(expr.callee)
    IN IF op >= 0 THEN add_byte(c1, op)
       ELSE add_bytes(compile(c1, expr.callee), OpCall, AsU8(Len(expr.args)))

compile_Return(cc, expr) == add_byte(compile(cc, expr.expr), OpReturn)

compile_Let(cc, expr) ==
    LET c1 == declare_var(cc, expr.name)
        c2 == compile(c1, expr.value)
        c3 == IF c2.panicked \/ c2.ctxs[c2.current + 1].scope_depth = 0 THEN c2
              ELSE [c2 EXCEPT !.ctxs[c2.current + 1].function.lets =
                       Append(@, [at |-> CodeLen(c2),
                                  idx |-> resolve_local(c2, expr.name, c2.current)])]
    IN define_var(c3, expr.name)

compile_Get(cc, expr) ==
    LET name == expr.name
        ev == [ev |-> "Get", name |-> name, depth |-> cc.current,
               any_local |-> AnyLocal(cc, name)]
        l == resolve_local(cc, name, cc.current)
    IN IF l >= 0
       THEN Logged(add_bytes(cc, OpGetLocal, AsU8(l)), ev @@ [out |-> "local"])
       ELSE LET r == resolve_upvalue(cc, name, cc.current)
            IN IF r.cc.panicked
               THEN [Logged(cc, ev @@ [out |-> "panic"]) EXCEPT !.panicked = TRUE]
               ELSE IF r.idx >= 0
               THEN Logged(add_bytes(r.cc, OpGetUpvalue, AsU8(r.idx)),
                           ev @@ [out |-> "upvalue", idx |-> r.idx, after |-> Snap(r.cc)])
               ELSE LET c1 == add_constant(r.cc, VStr(name))
                    IN Logged(add_bytes(c1, OpGetGlobal, AsU8(ConstIdx(c1))),
                              ev @@ [out |-> "global"])

compile_Set(cc, expr) ==
    LET name == expr.name
        c1 == compile(cc, expr.value)
    IN IF c1.panicked THEN c1
       ELSE LET ev == [ev |-> "Set", name |-> name, depth |-> c1.current,
                       any_local |-> AnyLocal(c1, name),
                       global_defined |-> name \in c1.globals_defined]
                l == resolve_local(c1, name, c1.current)
            IN IF l >= 0
               THEN Logged(add_bytes(c1, OpSetLocal, AsU8(l)), ev @@ [out |-> "SetLocal"])
               ELSE LET r == resolve_upvalue(c1, name, c1.current)
                    IN IF r.cc.panicked
                       THEN [Logged(c1, ev @@ [out |-> "panic"]) EXCEPT !.panicked = TRUE]
                       ELSE IF r.idx >= 0
                       THEN Logged(add_bytes(r.cc, OpSetUpvalue, AsU8(r.idx)),
                                   ev @@ [out |-> "SetUpvalue", idx |-> r.idx,
                                          after |-> Snap(r.cc)])
                       ELSE LET g == resolve_global(r.cc, name)
                            IN IF g >= 0
                               THEN Logged(add_bytes(r.cc, OpSetGlobal, AsU8(g)),
                                           ev @@ [out |-> "SetGlobal"])
                               ELSE [Logged(r.cc, ev @@ [out |-> "panic"])
                                        EXCEPT !.panicked = TRUE]

\* exprs[lo..hi) compiled in order; the range is halved so that a long
\* list does not nest as deep as it is long
compile_range(cc, exprs, lo, hi) ==
    IF hi <= lo THEN cc
    ELSE IF hi = lo + 1 THEN compile(cc, exprs[lo + 1])
    ELSE LET mid == (lo + hi) \div 2
             c1 == compile_range(cc, exprs, lo, mid)
         IN IF c1.panicked THEN c1 ELSE compile_range(c1, exprs, mid, hi)

\* the locals of the current context, for the log
Locals(cc) == cc.ctxs[cc.current + 1].locals

compile_Block(cc, expr) ==
    LET c1 == compile_all(begin_scope(cc), expr.exprs, 0)
        c2 == end_scope(c1)
    IN IF c2.panicked THEN c2
       ELSE Logged(c2, [ev |-> "Block", depth |-> cc.current,
                        scope |-> <<cc.ctxs[cc.current + 1].scope_depth,
                                    c2.ctxs[c2.current + 1].scope_depth>>,
                        before |-> Locals(cc), inner |-> Locals(c1),
                        after |-> Locals(c2),
                        tail |-> SubSeq(c2.ctxs[c2.current + 1].function.chunk.code,
                                        CodeLen(c1) + 1, CodeLen(c2))])

\* a compile_If whose distances are counted from the operand, not the opcode
compile_If_from_operand(cc, expr) ==
    LET c1 == compile(cc, expr.c)
        then_jump_idx == CodeLen(c1)
        c2 == add_bytes(add_byte(c1, OpJumpIfFalse), 255, 255)
        c3 == compile(c2, expr.t)
        then_end_jump_idx == CodeLen(c3)
        c4 == add_bytes(add_byte(c3, OpJump), 255, 255)
        c5 == Patch(c4, then_jump_idx + 1, CodeLen(c4) - (then_jump_idx + 1))
        c6 == compile(c5, expr.e)
        c7 == Patch(c6, then_end_jump_idx + 1, CodeLen(c6) - (then_end_jump_idx + 1))
    IN Marked(c7, [k |-> "If", jif |-> then_jump_idx, jmp |-> then_end_jump_idx,
                   els |-> CodeLen(c4), fin |-> CodeLen(c6)])

compile_If(cc, expr) ==
    LET c1 == compile(cc, expr.c)
        then_jump_idx == CodeLen(c1)
        c2 == add_bytes(add_byte(c1, OpJumpIfFalse), 255, 255)
        c3 == compile(c2, expr.t)
        then_end_jump_idx == CodeLen(c3)
        c4 == add_bytes(add_byte(c3, OpJump), 255, 255)
        c5 == Patch(c4, then_jump_idx + 1, CodeLen(c4) - then_jump_idx)
        c6 == compile(c5, expr.e)
        c7 == Patch(c6, then_end_jump_idx + 1, CodeLen(c6) - then_end_jump_idx)
    IN Marked(c7, [k |-> "If", jif |-> then_jump_idx, jmp |-> then_end_jump_idx,
                   els |-> CodeLen(c4), fin |-> CodeLen(c6)])

\* a compile_Loop that leaves its patch lists on the two stacks
compile_Loop_shared(cc, expr) ==
    IF cc.panicked THEN cc
    ELSE
    LET loop_start_idx == CodeLen(cc)
        c1 == [cc EXCEPT !.ctxs[cc.current + 1].continues = Append(@, <<>>),
                         !.ctxs[cc.current + 1].breaks = Append(@, <<>>)]
        c2 == compile(c1, expr.body)
    IN IF c2.panicked THEN c2
       ELSE LET c3 == add_bytes(add_byte(c2, OpAbsJump), 255, 255)
                c4 == Patch(c3, CodeLen(c3) - 2, loop_start_idx)
                loop_exit_idx == CodeLen(c4)
                ctx == c4.ctxs[c4.current + 1]
                conts == ctx.continues[Len(ctx.continues)]
                brks == ctx.breaks[Len(ctx.breaks)]
                c5 == c4
                c6 == patch_all(c5, conts, loop_start_idx, 0)
                c7 == c6
                c8 == patch_all(c7, brks, loop_exit_idx, 0)
                after == c8.ctxs[c8.current + 1]
            IN Marked(c8, [k |-> "Loop", start |-> loop_start_idx,
                           back |-> loop_exit_idx - 3, exit |-> loop_exit_idx,
                           continues |-> <<Len(cc.ctxs[cc.current + 1].continues),
                                           Len(after.continues)>>,
                           breaks |-> <<Len(cc.ctxs[cc.current + 1].breaks),
                                        Len(after.breaks)>>])

compile_Loop(cc, expr) ==
    IF cc.panicked THEN cc
    ELSE
    LET loop_start_idx == CodeLen(cc)
        c1 == [cc EXCEPT !.ctxs[cc.current + 1].continues = Append(@, <<>>),
                         !.ctxs[cc.current + 1].breaks = Append(@, <<>>)]
        c2 == compile(c1, expr.body)
    IN IF c2.panicked THEN c2
       ELSE LET c3 == add_bytes(add_byte(c2, OpAbsJump), 255, 255)
                c4 == Patch(c3, CodeLen(c3) - 2, loop_start_idx)
                loop_exit_idx == CodeLen(c4)
                ctx == c4.ctxs[c4.current + 1]
                conts == ctx.continues[Len(ctx.continues)]
                brks == ctx.breaks[Len(ctx.breaks)]
                c5 == [c4 EXCEPT !.ctxs[c4.current + 1].continues = SubSeq(@, 1, Len(@) - 1)]
                c6 == patch_all(c5, conts, loop_start_idx, 0)
                c7 == [c6 EXCEPT !.ctxs[c6.current + 1].breaks = SubSeq(@, 1, Len(@) - 1)]
                c8 == patch_all(c7, brks, loop_exit_idx, 0)
                after == c8.ctxs[c8.current + 1]
            IN Marked(c8, [k |-> "Loop", start |-> loop_start_idx,
                           back |-> loop_exit_idx - 3, exit |-> loop_exit_idx,
                           continues |-> <<Len(cc.ctxs[cc.current + 1].continues),
                                           Len(after.continues)>>,
                           breaks |-> <<Len(cc.ctxs[cc.current + 1].breaks),
                                        Len(after.breaks)>>])

\* continues.len() - 1 on an empty Vec panics with overflow checks and
\* otherwise wraps to an index past the end, which panics as well.
compile_Continue(cc, expr) ==
    LET continue_jump_idx == CodeLen(cc)
        c1 == add_bytes(add_byte(cc, OpAbsJump), 255, 255)
        n == Len(cc.ctxs[cc.current + 1].continues)
        ev == [ev |-> "Continue", depth |-> cc.current, loops |-> n]
    IN IF n = 0 THEN [Logged(c1, ev @@ [out |-> "panic"]) EXCEPT !.panicked = TRUE]
       ELSE Marked(Logged([c1 EXCEPT !.ctxs[cc.current + 1].continues[n] =
                                         Append(@, continue_jump_idx)],
                          ev @@ [out |-> "ok"]),
                   [k |-> "Continue", at |-> continue_jump_idx])

\* compile_Break that tolerates an empty breaks stack
compile_Break_unguarded(cc, expr) ==
    LET c1 == add_bytes(add_byte(cc, OpAbsJump), 255, 255)
        n == Len(cc.ctxs[cc.current + 1].breaks)
    IN IF n = 0 THEN c1
       ELSE [c1 EXCEPT !.ctxs[cc.current + 1].breaks[n] = Append(@, CodeLen(cc))]

compile_Break(cc, expr) ==
    LET break_jump_idx == CodeLen(cc)
        c1 == add_bytes(add_byte(cc, OpAbsJump), 255, 255)
        n == Len(cc.ctxs[cc.current + 1].breaks)
        ev == [ev |-> "Break", depth |-> cc.current, loops |-> n]
    IN IF n = 0 THEN [Logged(c1, ev @@ [out |-> "panic"]) EXCEPT !.panicked = TRUE]
       ELSE Marked(Logged([c1 EXCEPT !.ctxs[cc.current + 1].breaks[n] =
                                         Append(@, break_jump_idx)],
                          ev @@ [out |-> "ok"]),
                   [k |-> "Break", at |-> break_jump_idx])

compile(cc, expr) ==
    IF cc.panicked THEN cc
    ELSE CASE expr.k = "Lit" -> compile_Lit(cc, expr)
           [] expr.k = "Lambda" -> compile_Lambda(cc, expr)
           [] expr.k = "Call" -> compile_Call(cc, expr)
           [] expr.k = "Return" -> compile_Return(cc, expr)
           [] expr.k = "Let" -> compile_Let(cc, expr)
           [] expr.k = "Get" -> compile_Get(cc, expr)
           [] expr.k = "Set" -> compile_Set(cc, expr)
           [] expr.k = "Block" -> compile_Block(cc, expr)
           [] expr.k = "If" -> compile_If(cc, expr)
           [] expr.k = "Loop" -> compile_Loop(cc, expr)
           [] expr.k = "Continue" -> compile_Continue(cc, expr)
           [] expr.k = "Break" -> compile_Break(cc, expr)

done(cc) == add_byte(compile(cc, Lit(VNone)), OpReturn)

(***************************************************************************)
(* native.rs: FFI, with the callbacks main registers (main.rs 70-96).      *)
(***************************************************************************)
FFI_names == {"print", "exit", "time"}

FFI_has(s) == s \in FFI_names

(***************************************************************************)
(* The state: the program handed to run, the build's overflow checking,    *)
(* the compiler after compile, and the VM (vm.rs 31-37).  cells is the     *)
(* heap of Rc<RefCell<Value>> and uplists the heap of                      *)
(* Rc<RefCell<Vec<HeapedData>>>; a HeapedData is an index into cells and   *)
(* a Closure's upvalues an index into uplists, so that clones share.       *)
(* captures and last are history variables: captures is which cell each    *)
(* MakeClosure bound to which stack slot of which live frame, and last is  *)
(* the opcode dispatched last with the stack, frames and cells it found.   *)
(* steps counts dispatched instructions.  rest is the lines the REPL has   *)
(* still to read after the one in core; it is empty when main runs a file. *)
(***************************************************************************)
VARIABLES status, core, checked, cc, frames, current_frame, stack, globals,
          cells, uplists, output, captures, last, steps, hist, rest

vars == <<status, core, checked, cc, frames, current_frame, stack, globals,
          cells, uplists, output, captures, last, steps, hist, rest>>

vmvars == <<frames, current_frame, stack, globals, cells, uplists, output, captures>>

Closure_new(function, upvalues) == [function |-> function, upvalues |-> upvalues]

CallFrame_new(closure, stack_start) ==
    [ip |-> 0, closure |-> closure, stack_start |-> stack_start]

Frame == frames[current_frame + 1]
Code == Frame.closure.function.chunk.code
stack_start == Frame.stack_start
get_ip == Frame.ip
read_byte(i) == Code[i + 1]
InCode(i) == i >= 0 /\ i < Len(Code)
Constants == Frame.closure.function.chunk.constants
HasConstant(idx) == idx < Len(Constants)
get_constant(idx) == Constants[idx + 1]

offset_ip(by) == [frames EXCEPT ![current_frame + 1].ip = @ + by]
set_ip(ip) == [frames EXCEPT ![current_frame + 1].ip = ip]

\* a usize used as an index: a wrapped (negative) value is past every Vec
InStack(i) == i >= 0 /\ i < Len(stack)

Top == stack[Len(stack)]
Popped == SubSeq(stack, 1, Len(stack) - 1)
Popped2 == SubSeq(stack, 1, Len(stack) - 2)

\* value.rs: Display for Value
RECURSIVE Display(_, _)
Display(v, heap) ==
    CASE v.tag = "None" -> "None"
      [] v.tag = "Bool" -> IF v.b THEN "true" ELSE "false"
      [] v.tag = "Float" -> DisplayFloat(v.x)
      [] v.tag = "Int" -> ToString(v.n)
      [] v.tag = "Str" -> v.s
      [] v.tag = "Closure" -> "Closure"
      [] v.tag = "Function" -> "Function"
      [] v.tag = "HeapedData" -> Display(heap[v.cell], heap)
      [] v.tag = "Native" -> "Native(" \o v.name \o ")"

(***************************************************************************)
(* main.rs: run.  Compiles the program and hands ctxs[0].function to a new *)
(* VM; done is not called for the top-level context.                       *)
(***************************************************************************)
(***************************************************************************)
(* The programs run is given.  The parser hands the compiler a Block for   *)
(* the whole input (parser.rs 43-45, 251-257) and wraps every lambda body  *)
(* in a Block (main.rs 150-162); Fn and Bin build those shapes.  The       *)
(* programs whose name starts with Core are Core trees the parser does not *)
(* produce; compile is public and takes any Core.                          *)
(***************************************************************************)
Fn(args, body) == Lambda(args, Block(<<body>>))
Bin(op, l, r) == Call(Get(op), <<l, r>>)
IntLit(n) == Lit(VInt(n))
CallPrint(e) == Call(Get("print"), <<e>>)

\* 1
ProgLit == Block(<<IntLit(1)>>)

\* let f = n -> if (n == 0) then (return 1) else (return (n * (f (n - 1)))); print (f 2)
ProgFactorial ==
    Block(<<Let("f", Fn(<<"n">>,
                If(Bin("==", Get("n"), IntLit(0)),
                   Return(IntLit(1)),
                   Return(Bin("*", Get("n"),
                              Call(Get("f"), <<Bin("-", Get("n"), IntLit(1))>>)))))),
            CallPrint(Call(Get("f"), <<IntLit(2)>>))>>)

\* let f = n -> {let s = 0; loop {if (n == 0) then (return s)
\*                                else {s = s + n; n = n - 1}}}; print (f 2)
ProgSum ==
    Block(<<Let("f", Fn(<<"n">>,
                Block(<<Let("s", IntLit(0)),
                        Loop(Block(<<If(Bin("==", Get("n"), IntLit(0)),
                                        Return(Get("s")),
                                        Block(<<Set("s", Bin("+", Get("s"), Get("n"))),
                                                Set("n", Bin("-", Get("n"), IntLit(1)))>>))>>))>>))),
            CallPrint(Call(Get("f"), <<IntLit(2)>>))>>)

\* let make = x -> (return (y -> (return (x + y)))); let add3 = make 3; print (add3 4)
ProgMake ==
    Block(<<Let("make", Fn(<<"x">>,
                Return(Fn(<<"y">>, Return(Bin("+", Get("x"), Get("y"))))))),
            Let("add3", Call(Get("make"), <<IntLit(3)>>)),
            CallPrint(Call(Get("add3"), <<IntLit(4)>>))>>)

\* let cons = x y -> (return (f -> (return (f x y)))); print ((cons 1 2) (x y -> return x))
ProgCons ==
    Block(<<Let("cons", Fn(<<"x", "y">>,
                Return(Fn(<<"f">>, Return(Call(Get("f"), <<Get("x"), Get("y")>>)))))),
            CallPrint(Call(Call(Get("cons"), <<IntLit(1), IntLit(2)>>),
                       <<Fn(<<"x", "y">>, Return(Get("x")))>>))>>)

\* let c = 0; let f = x -> (c = 5); f 1; print c
ProgCapture ==
    Block(<<Let("c", IntLit(0)),
            Let("f", Fn(<<"x">>, Set("c", IntLit(5)))),
            Call(Get("f"), <<IntLit(1)>>),
            CallPrint(Get("c"))>>)

\* let c = 0; let f = x -> (c = x); let g = x -> (return c); f 5; print (g 0)
ProgTwoClosures ==
    Block(<<Let("c", IntLit(0)),
            Let("f", Fn(<<"x">>, Set("c", Get("x")))),
            Let("g", Fn(<<"x">>, Return(Get("c")))),
            Call(Get("f"), <<IntLit(5)>>),
            CallPrint(Call(Get("g"), <<IntLit(0)>>))>>)

\* let a = 1; let f = x -> (return (y -> (return a))); print ((f 0) 0)
ProgNested ==
    Block(<<Let("a", IntLit(1)),
            Let("f", Fn(<<"x">>, Return(Fn(<<"y">>, Return(Get("a")))))),
            CallPrint(Call(Call(Get("f"), <<IntLit(0)>>), <<IntLit(0)>>))>>)

\* 7; let x = 9; print x
ProgStmtBeforeLet ==
    Block(<<IntLit(7), Let("x", IntLit(9)), CallPrint(Get("x"))>>)

\* let f = a -> {a; let x = 9; return x}; print (f 3)
ProgStmtBeforeLetFn ==
    Block(<<Let("f", Fn(<<"a">>,
                Block(<<Get("a"), Let("x", IntLit(9)), Return(Get("x"))>>))),
            CallPrint(Call(Get("f"), <<IntLit(3)>>))>>)

\* let x = 1; let y = 2; x = y; print x
ProgLocals ==
    Block(<<Let("x", IntLit(1)), Let("y", IntLit(2)), Set("x", Get("y")), CallPrint(Get("x"))>>)

\* if 1 then 2
ProgIfTop == Block(<<If(IntLit(1), IntLit(2), IntLit(0))>>)

\* let f = x -> if x then 2 else 3; f 0
ProgIfFn ==
    Block(<<Let("f", Fn(<<"x">>, If(Get("x"), IntLit(2), IntLit(3)))),
            Call(Get("f"), <<IntLit(0)>>)>>)

\* let i = 0; loop {i = i + 1; if (i == 2) then break else continue}
ProgBreak ==
    Block(<<Let("i", IntLit(0)),
            Loop(Block(<<Set("i", Bin("+", Get("i"), IntLit(1))),
                         If(Bin("==", Get("i"), IntLit(2)), Break, Continue)>>))>>)

\* let i = 0; loop {loop {break}; i = i + 1; if (i == 2) then break}; print i
ProgNestedLoop ==
    Block(<<Let("i", IntLit(0)),
            Loop(Block(<<Loop(Block(<<Break>>)),
                         Set("i", Bin("+", Get("i"), IntLit(1))),
                         If(Bin("==", Get("i"), IntLit(2)), Break, IntLit(0))>>)),
            CallPrint(Get("i"))>>)

\* let i = 0
\* loop {loop {loop {break}; if (i == 5) then continue else break}
\*       i = i + 1; if (i == 2) then break else continue}
ProgLoops3 ==
    Block(<<Let("i", IntLit(0)),
            Loop(Block(<<Loop(Block(<<Loop(Block(<<Break>>)),
                                      If(Bin("==", Get("i"), IntLit(5)),
                                         Continue, Break)>>)),
                         Set("i", Bin("+", Get("i"), IntLit(1))),
                         If(Bin("==", Get("i"), IntLit(2)), Break, Continue)>>))>>)

\* let f = a -> (return (b -> (return (c -> (return (d -> (return (a + c + a))))))))
\* print ((((f 1) 2) 3) 4)
ProgNested4 ==
    Block(<<Let("f", Fn(<<"a">>, Return(Fn(<<"b">>, Return(Fn(<<"c">>,
                Return(Fn(<<"d">>,
                    Return(Bin("+", Bin("+", Get("a"), Get("c")), Get("a"))))))))))),
            CallPrint(Call(Call(Call(Call(Get("f"), <<IntLit(1)>>), <<IntLit(2)>>),
                                <<IntLit(3)>>), <<IntLit(4)>>))>>)

\* break
ProgBreakTop == Block(<<Break>>)

\* continue
ProgContinueTop == Block(<<Continue>>)

\* loop {let f = x -> break; break}
ProgBreakInLambda ==
    Block(<<Loop(Block(<<Let("f", Fn(<<"x">>, Break)), Break>>))>>)

\* loop {let f = x -> continue; break}
ProgContinueInLambda ==
    Block(<<Loop(Block(<<Let("f", Fn(<<"x">>, Continue)), Break>>))>>)

\* print 1
ProgPrint == Block(<<CallPrint(IntLit(1))>>)

\* let f = x -> print x; f 1
ProgGlobalInLambda ==
    Block(<<Let("f", Fn(<<"x">>, CallPrint(Get("x")))),
            Call(Get("f"), <<IntLit(1)>>)>>)

\* let f = x -> (return (y -> g)); f 1
ProgGlobalInLambda2 ==
    Block(<<Let("f", Fn(<<"x">>, Return(Fn(<<"y">>, Get("g"))))),
            Call(Get("f"), <<IntLit(1)>>)>>)

\* y = 1
ProgSetUndefined == Block(<<Set("y", IntLit(1))>>)

\* "y"; y = 1
ProgSetAfterStr == Block(<<Lit(VStr("y")), Set("y", IntLit(1))>>)

\* y; y = 1; print y
ProgSetAfterGet == Block(<<Get("y"), Set("y", IntLit(1)), CallPrint(Get("y"))>>)

\* at depth 0: let g = 1; g = 2; print g
CoreGlobal ==
    Call(Get("print"), <<Let("g", IntLit(1)), Set("g", IntLit(2)), Get("g")>>)

\* at depth 0: let g = 1; print (x -> (g = 2))
CoreGlobalInLambda ==
    Call(Get("print"), <<Let("g", IntLit(1)), Fn(<<"x">>, Set("g", IntLit(2)))>>)

\* let f = x -> (return 1); f 1 2
ProgArity ==
    Block(<<Let("f", Fn(<<"x">>, Return(IntLit(1)))),
            CallPrint(Call(Get("f"), <<IntLit(1), IntLit(2)>>))>>)

\* let f = x y -> (return y); print (f 1)
ProgArityFew ==
    Block(<<Let("f", Fn(<<"x", "y">>, Return(Get("y")))),
            CallPrint(Call(Get("f"), <<IntLit(1)>>))>>)

\* let a = 0; let f = x y z -> 1; f (a = 1) (a = 1) (a = 1)
ProgCallUnderflow ==
    Block(<<Let("a", IntLit(0)),
            Let("f", Fn(<<"x", "y", "z">>, IntLit(1))),
            Call(Get("f"), <<Set("a", IntLit(1)), Set("a", IntLit(1)), Set("a", IntLit(1))>>)>>)

\* let f = a -> {{let x = (a = 1); let y = (a = 2)}; 5; 6}; print (f 0)
ProgPopBelow ==
    Block(<<Let("f", Fn(<<"a">>,
                Block(<<Block(<<Let("x", Set("a", IntLit(1))), Let("y", Set("a", IntLit(2)))>>),
                        IntLit(5), IntLit(6)>>))),
            CallPrint(Call(Get("f"), <<IntLit(0)>>))>>)

\* exit 0
ProgExit == Block(<<Call(Get("exit"), <<IntLit(0)>>)>>)

\* print (time 0)
ProgTime == Block(<<CallPrint(Call(Get("time"), <<IntLit(0)>>))>>)

\* return 1
ProgReturnTop == Block(<<Let("x", IntLit(3)), Return(IntLit(1))>>)

\* let x = 1; x 2
ProgCallInt ==
    Block(<<Let("x", IntLit(1)), Call(Get("x"), <<IntLit(2)>>)>>)

\* let mk = x -> {let c = 0; return (y -> {if y then (c = y) else 0; return c})};
\* let k = mk 0; k 5; print (k 0)
ProgCounter ==
    Block(<<Let("mk", Fn(<<"x">>,
                Block(<<Let("c", IntLit(0)),
                        Return(Fn(<<"y">>,
                            Block(<<If(Get("y"), Set("c", Get("y")), IntLit(0)),
                                    Return(Get("c"))>>)))>>))),
            Let("k", Call(Get("mk"), <<IntLit(0)>>)),
            Call(Get("k"), <<IntLit(5)>>),
            CallPrint(Call(Get("k"), <<IntLit(0)>>))>>)

\* print 0; print = 1; print print
ProgShadow ==
    Block(<<CallPrint(IntLit(0)), Set("print", IntLit(1)), CallPrint(Get("print"))>>)

\* at depth 0: let time = 1; print time
CoreShadow == Call(Get("print"), <<Let("time", IntLit(1)), Get("time")>>)

\* print 1 2
ProgPrintTwo == Block(<<Call(Get("print"), <<IntLit(1), IntLit(2)>>)>>)

\* let a = 5; print applied to no argument
ProgPrintNone == Block(<<Let("a", IntLit(5)), Call(Get("print"), <<>>)>>)

\* let f = x -> (return (y -> if x then (return 1) else (return 2))); print ((f 0) 0)
ProgIfUpvalue ==
    Block(<<Let("f", Fn(<<"x">>, Return(Fn(<<"y">>,
                If(Get("x"), Return(IntLit(1)), Return(IntLit(2))))))),
            CallPrint(Call(Call(Get("f"), <<IntLit(0)>>), <<IntLit(0)>>))>>)

\* 1; 2; ...; ManyLits: one literal more than a one-byte operand can index
ProgManyLits == Block([i \in 1..ManyLits |-> IntLit(i)])

\* let f = x -> {1; 2; ...; 256}; print (f 0)
ProgManyLitsFn ==
    Block(<<Let("f", Fn(<<"x">>, Block([i \in 1..(ManyLits - 1) |-> IntLit(i)]))),
            CallPrint(Call(Get("f"), <<IntLit(0)>>))>>)

\* let c = 0; let f = x -> {c; c = 5; return 0}; f 1; print c
ProgUpAlias ==
    Block(<<Let("c", IntLit(0)),
            Let("f", Lambda(<<"x">>, Block(<<Get("c"), Set("c", IntLit(5)),
                                             Return(IntLit(0))>>))),
            Call(Get("f"), <<IntLit(1)>>),
            CallPrint(Get("c"))>>)

\* let x = x
ProgLetSelf == Block(<<Let("x", Get("x"))>>)

\* loop {1; break}
ProgLoopStmt == Block(<<Loop(Block(<<IntLit(1), Break>>))>>)

\* loop {let x = 1; break}
ProgLoopLet == Block(<<Loop(Block(<<Let("x", IntLit(1)), Break>>))>>)

\* if false then {1; 2; ...; 256} else (x -> (return x))
ProgManyLitsLambda ==
    Block(<<If(Lit(VBool(FALSE)),
               Block([i \in 1..(ManyLits - 1) |-> IntLit(i)]),
               Fn(<<"x">>, Return(Get("x"))))>>)

Programs ==
    <<ProgLit, ProgFactorial, ProgSum, ProgMake, ProgCons, ProgCapture,
     ProgTwoClosures, ProgNested, ProgStmtBeforeLet, ProgStmtBeforeLetFn,
     ProgLocals, ProgIfTop, ProgIfFn, ProgBreak, ProgNestedLoop, ProgBreakTop,
     ProgContinueTop, ProgBreakInLambda, ProgContinueInLambda, ProgPrint,
     ProgGlobalInLambda, ProgGlobalInLambda2, ProgSetUndefined, ProgSetAfterStr,
     ProgSetAfterGet, CoreGlobal, CoreGlobalInLambda, ProgArity, ProgArityFew,
     ProgCallUnderflow, ProgPopBelow, ProgExit, ProgTime, ProgReturnTop,
     ProgCallInt, ProgCounter, ProgShadow, CoreShadow, ProgPrintTwo,
     ProgPrintNone, ProgIfUpvalue, ProgManyLits, ProgLoops3, ProgNested4,
     ProgManyLitsFn, ProgUpAlias, ProgLetSelf, ProgLoopStmt, ProgLoopLet,
     ProgManyLitsLambda>>

\* the operators compiled to an opcode, compiler.rs 38-50
BinOps == {"==", "+", "-", "*", "/"}

\* operand expressions, one or more of every kind of value an expression
\* can leave on the stack: None, Bool, Int, Float, Str, Function, Native,
\* Closure (a HeapedData comes from GetUpvalue: ProgMake, ProgIfUpvalue)
Operands ==
    <<Lit(VNone), Lit(VBool(TRUE)), Lit(VBool(FALSE)),
      IntLit(0), IntLit(3), IntLit(-2),
      Lit(VFloat(FromInt(0))), Lit(VFloat(F(3, 2))), Lit(VFloat(FromInt(3))),
      Lit(VStr("")), Lit(VStr("a")),
      Lit(VFunction(Function_new(0, 0, Chunk_new(<<>>, <<>>)))),
      Get("print"),
      Fn(<<"x">>, Return(Get("x")))>>

\* l op r
ProgBin(op, i, j) == Block(<<Bin(op, Operands[i], Operands[j])>>)

\* if c then 1 else 2
ProgIf(i) == Block(<<If(Operands[i], IntLit(1), IntLit(2))>>)

\* REPL sessions, one Core per line
\*   >> y; y = 1
\*   >> print y
SessionGlobal ==
    <<Block(<<Get("y"), Set("y", IntLit(1))>>), Block(<<CallPrint(Get("y"))>>)>>

\*   >> let x = 1
\*   >> print 2
\*   >> 3
SessionThree == <<Block(<<Let("x", IntLit(1))>>), ProgPrint, Block(<<IntLit(3)>>)>>

Sessions == <<SessionGlobal, SessionThree>>

\* the state VM::new builds and the histories of a run that has not started
NoLast ==
    [op |-> -1, stack |-> <<>>, frames |-> <<>>, cells |-> <<>>,
     globals |-> <<>>, output |-> <<>>]

Init ==
    /\ status = "start"
    /\ \/ /\ rest = <<>>
          /\ \/ \E i \in 1..Len(Programs) : core = Programs[i]
             \/ \E op \in BinOps : \E i, j \in 1..Len(Operands) :
                   core = ProgBin(op, i, j)
             \/ \E i \in 1..Len(Operands) : core = ProgIf(i)
       \/ \E i \in 1..Len(Sessions) :
             /\ core = Head(Sessions[i])
             /\ rest = Tail(Sessions[i])
    /\ checked \in BOOLEAN
    /\ cc = Compiler_new
    /\ frames = <<>>
    /\ current_frame = 0
    /\ stack = <<>>
    /\ globals = <<>>
    /\ cells = <<>>
    /\ uplists = <<>>
    /\ output = <<>>
    /\ captures = {}
    /\ last = NoLast
    /\ steps = 0
    /\ hist = [n |-> 0, acts |-> <<>>, upwrites |-> <<>>, earlier |-> {},
               entered |-> {}]

run ==
    /\ status = "start"
    /\ LET c == compile(Compiler_new, core)
       IN /\ cc' = c
          /\ IF c.panicked
             THEN /\ status' = "compile_panic"
                  /\ UNCHANGED <<frames, uplists, current_frame, stack, globals>>
             ELSE /\ status' = "running"
                  /\ uplists' = <<<<>>>>
                  /\ frames' = <<CallFrame_new(Closure_new(c.ctxs[1].function, 1), 0)>>
                  /\ current_frame' = 0
                  /\ stack' = <<>>
                  /\ globals' = <<>>
    /\ hist' = [hist EXCEPT !.n = IF cc'.panicked THEN 0 ELSE 1,
                            !.acts = IF cc'.panicked THEN <<>> ELSE <<1>>]
    /\ UNCHANGED <<core, checked, cells, output, captures, last, steps, rest>>

\* main.rs 25-37: run has returned, which dropped its Compiler and its VM;
\* the loop reads the next line and calls run on it.  What was printed
\* stays printed.  hist.earlier collects the names the finished lines left
\* in globals.
repl ==
    /\ status = "ok"
    /\ rest # <<>>
    /\ status' = "start"
    /\ core' = Head(rest)
    /\ rest' = Tail(rest)
    /\ cc' = Compiler_new
    /\ frames' = <<>>
    /\ current_frame' = 0
    /\ stack' = <<>>
    /\ globals' = <<>>
    /\ cells' = <<>>
    /\ uplists' = <<>>
    /\ captures' = {}
    /\ last' = NoLast
    /\ steps' = 0
    /\ hist' = [n |-> 0, acts |-> <<>>, upwrites |-> <<>>,
                earlier |-> hist.earlier \cup
                            {globals[i].name : i \in 1..Len(globals)},
                entered |-> {}]
    /\ UNCHANGED <<checked, output>>

(***************************************************************************)
(* vm.rs: VM::run, one action per arm of the dispatch match.  A panic      *)
(* (unwrap on None, index out of bounds, todo!, checked overflow) aborts   *)
(* the process: status becomes "panic" and the VM state is left as it was  *)
(* when the instruction was fetched.                                       *)
(***************************************************************************)
(***************************************************************************)
(* hist is a history variable, not state of the program.  acts numbers the *)
(* activations: acts[k] is the number of the call that pushed frames[k].   *)
(* upwrites lists the writes of SetUpvalue in order: the upvalue list and  *)
(* index written through, the cell, the value and the writing activation.  *)
(***************************************************************************)
\* the instruction at ip is a Call that pushes a frame
Calls ==
    /\ read_byte(get_ip) = OpCall
    /\ Len(stack) > 0
    /\ (IF Top.tag = "HeapedData" THEN cells[Top.cell] ELSE Top).tag = "Closure"
    /\ ~(Len(Popped) < read_byte(get_ip + 1) /\ checked)

\* the instruction at ip is a Return that pops a frame
Returns ==
    /\ read_byte(get_ip) = OpReturn
    /\ Len(stack) > 0
    /\ Len(frames) = 1 \/ (Frame.stack_start >= 0 /\ Frame.stack_start <= Len(stack) - 1)

\* the instruction at ip is a SetUpvalue that writes a cell
Writes ==
    /\ read_byte(get_ip) = OpSetUpvalue
    /\ Len(stack) > 0
    /\ read_byte(get_ip + 1) < Len(uplists[Frame.closure.upvalues])

\* the loops of the executing function whose first byte is about to be
\* dispatched for the first time in this activation, with the height of the
\* operand stack at that moment
FirstEntries ==
    LET f == Frame.closure.function
        act == hist.acts[Len(hist.acts)]
    IN {[act |-> act, loop |-> j, height |-> Len(stack)] :
          j \in {i \in 1..Len(f.marks) :
                   /\ f.marks[i].k = "Loop"
                   /\ f.marks[i].start = get_ip
                   /\ \A e \in hist.entered : ~(e.act = act /\ e.loop = i)}}

Recorded ==
    LET u == Frame.closure.upvalues
        i == read_byte(get_ip + 1)
    IN [n |-> IF Calls THEN hist.n + 1 ELSE hist.n,
        acts |-> IF Calls THEN Append(hist.acts, hist.n + 1)
                 ELSE IF Returns THEN SubSeq(hist.acts, 1, Len(hist.acts) - 1)
                 ELSE hist.acts,
        upwrites |->
            IF Writes
            THEN Append(hist.upwrites,
                        [u |-> u, i |-> i, cell |-> uplists[u][i + 1],
                         v |-> Top, act |-> hist.acts[Len(hist.acts)]])
            ELSE hist.upwrites,
        earlier |-> hist.earlier,
        entered |-> hist.entered \cup FirstEntries]

Dispatch(op) ==
    /\ status = "running"
    /\ steps < MaxSteps
    /\ InCode(get_ip)
    /\ read_byte(get_ip) = op
    /\ steps' = steps + 1
    /\ last' = [op |-> op, stack |-> stack, frames |-> frames, cells |-> cells,
                globals |-> globals, output |-> output]
    /\ hist' = Recorded
    /\ UNCHANGED <<core, checked, cc, rest>>

Abort ==
    /\ status' = "panic"
    /\ UNCHANGED vmvars

Continuing == status' = "running"

\* a loop exit that reports failure
Halt_failing ==
    /\ status = "running"
    /\ ~InCode(get_ip)
    /\ status' = "panic"
    /\ UNCHANGED <<core, checked, cc, last, steps, hist, rest>>
    /\ UNCHANGED vmvars

\* loop exit, vm.rs 113-120 and 406
Halt ==
    /\ status = "running"
    /\ ~InCode(get_ip)
    /\ status' = "ok"
    /\ UNCHANGED <<core, checked, cc, last, steps, hist, rest>>
    /\ UNCHANGED vmvars

\* Drained without the drain: the callee's slots stay on the stack
Drained_kept(st, drain_from) == st

\* stack.drain(drain_from..stack.len()), vm.rs 151
Drained(st, drain_from) == SubSeq(st, 1, drain_from)

Return_ ==
    /\ Dispatch(OpReturn)
    /\ IF Len(stack) = 0 THEN Abort
       ELSE LET result == Top
                drain_from == Frame.stack_start
            IN IF Len(frames) = 1
               THEN /\ status' = "ok"
                    /\ stack' = Popped
                    /\ frames' = <<>>
                    /\ captures' = {}
                    /\ UNCHANGED <<current_frame, globals, cells, uplists, output>>
               ELSE IF drain_from < 0 \/ drain_from > Len(stack) - 1 THEN Abort
               ELSE /\ Continuing
                    /\ stack' = Append(Drained(Popped, drain_from), result)
                    /\ frames' = SubSeq(frames, 1, Len(frames) - 1)
                    /\ current_frame' = current_frame - 1
                    /\ captures' = {c \in captures : c.frame # current_frame}
                    /\ UNCHANGED <<globals, cells, uplists, output>>

Pop ==
    /\ Dispatch(OpPop)
    /\ Continuing
    /\ stack' = IF Len(stack) = 0 THEN stack ELSE Popped
    /\ frames' = offset_ip(1)
    /\ UNCHANGED <<current_frame, globals, cells, uplists, output, captures>>

\* an IsEqual that treats operands of different kinds as a runtime error
IsEqual_strict ==
    /\ Dispatch(OpIsEqual)
    /\ IF Len(stack) < 2 THEN Abort
       ELSE LET x == stack[Len(stack)]
                y == stack[Len(stack) - 1]
            IN IF x.tag # y.tag THEN Abort
               ELSE /\ Continuing
                    /\ stack' = Append(Popped2, VBool(x = y))
                    /\ frames' = offset_ip(1)
                    /\ UNCHANGED <<current_frame, globals, cells, uplists, output,
                                   captures>>

IsEqual ==
    /\ Dispatch(OpIsEqual)
    /\ IF Len(stack) < 2 THEN Abort
       ELSE LET x == stack[Len(stack)]
                y == stack[Len(stack) - 1]
                r == CASE x.tag = "Int" /\ y.tag = "Int" -> x.n = y.n
                       [] x.tag = "Float" /\ y.tag = "Float" -> FEq(x.x, y.x)
                       [] x.tag = "Bool" /\ y.tag = "Bool" -> x.b = y.b
                       [] OTHER -> FALSE
            IN /\ Continuing
               /\ stack' = Append(Popped2, VBool(r))
               /\ frames' = offset_ip(1)
               /\ UNCHANGED <<current_frame, globals, cells, uplists, output, captures>>

Numeric(v) == v.tag \in {"Int", "Float"}
\* the operand as the f64 the match arm computes with: x, or x as f64
Num(v) == IF v.tag = "Int" THEN FromInt(v.n) ELSE v.x

\* an Arith whose Divide of two Ints is an integer division
Arith_intdiv(op, x, y) ==
    IF x.tag = "Int" /\ y.tag = "Int"
    THEN VInt(CASE op = OpAdd -> x.n + y.n
                [] op = OpSubtract -> x.n - y.n
                [] op = OpMultiply -> x.n * y.n
                [] op = OpDivide -> IF y.n = 0 THEN 0 ELSE x.n \div y.n)
    ELSE VFloat(CASE op = OpAdd -> FAdd(Num(x), Num(y))
                  [] op = OpSubtract -> FSub(Num(x), Num(y))
                  [] op = OpMultiply -> FMul(Num(x), Num(y))
                  [] op = OpDivide -> FDiv(Num(x), Num(y)))

\* the match of Add, Subtract, Multiply and Divide (vm.rs 193-203, 210-220,
\* 227-237, 244-256): Int op Int is Int except for Divide, any Float makes
\* Float, everything else is todo!("runtime error")
Arith(op, x, y) ==
    IF x.tag = "Int" /\ y.tag = "Int" /\ op # OpDivide
    THEN VInt(CASE op = OpAdd -> x.n + y.n
                [] op = OpSubtract -> x.n - y.n
                [] op = OpMultiply -> x.n * y.n)
    ELSE VFloat(CASE op = OpAdd -> FAdd(Num(x), Num(y))
                  [] op = OpSubtract -> FSub(Num(x), Num(y))
                  [] op = OpMultiply -> FMul(Num(x), Num(y))
                  [] op = OpDivide -> FDiv(Num(x), Num(y)))

Binary(op) ==
    /\ Dispatch(op)
    /\ IF Len(stack) < 2 THEN Abort
       ELSE LET y == stack[Len(stack)]
                x == stack[Len(stack) - 1]
            IN IF ~(Numeric(x) /\ Numeric(y)) THEN Abort
               ELSE /\ Continuing
                    /\ stack' = Append(Popped2, Arith(op, x, y))
                    /\ frames' = offset_ip(1)
                    /\ UNCHANGED <<current_frame, globals, cells, uplists, output,
                                   captures>>

Add == Binary(OpAdd)
Subtract == Binary(OpSubtract)
Multiply == Binary(OpMultiply)
Divide == Binary(OpDivide)

UpvaluesOf(closure) == uplists[closure.upvalues]

\* a SetUpvalue whose write goes to a copy: the shared cell keeps its value
SetUpvalue_copy ==
    /\ Dispatch(OpSetUpvalue)
    /\ LET idx == read_byte(get_ip + 1)
       IN IF idx >= Len(uplists[Frame.closure.upvalues]) \/ Len(stack) = 0 THEN Abort
          ELSE /\ Continuing
               /\ frames' = offset_ip(2)
               /\ UNCHANGED <<current_frame, stack, globals, cells, uplists, output,
                              captures>>

\* a SetUpvalue that consumed the value it wrote
SetUpvalue_popping ==
    /\ Dispatch(OpSetUpvalue)
    /\ LET idx == read_byte(get_ip + 1)
           upvalues == UpvaluesOf(Frame.closure)
       IN IF idx >= Len(upvalues) \/ Len(stack) = 0 THEN Abort
          ELSE /\ Continuing
               /\ frames' = offset_ip(2)
               /\ cells' = [cells EXCEPT ![upvalues[idx + 1]] = Top]
               /\ stack' = Popped
               /\ UNCHANGED <<current_frame, globals, uplists, output, captures>>

SetUpvalue ==
    /\ Dispatch(OpSetUpvalue)
    /\ LET idx == read_byte(get_ip + 1)
           upvalues == UpvaluesOf(Frame.closure)
       IN IF idx >= Len(upvalues) \/ Len(stack) = 0 THEN Abort
          ELSE /\ Continuing
               /\ frames' = offset_ip(2)
               /\ cells' = [cells EXCEPT ![upvalues[idx + 1]] = Top]
               /\ UNCHANGED <<current_frame, stack, globals, uplists, output, captures>>

GetUpvalue ==
    /\ Dispatch(OpGetUpvalue)
    /\ LET idx == read_byte(get_ip + 1)
           upvalues == UpvaluesOf(Frame.closure)
       IN IF idx >= Len(upvalues) THEN Abort
          ELSE /\ Continuing
               /\ stack' = Append(stack, VHeapedData(upvalues[idx + 1]))
               /\ frames' = offset_ip(2)
               /\ UNCHANGED <<current_frame, globals, cells, uplists, output, captures>>

LoadConstant ==
    /\ Dispatch(OpLoadConstant)
    /\ LET idx == read_byte(get_ip + 1)
       IN IF ~HasConstant(idx) THEN Abort
          ELSE /\ Continuing
               /\ stack' = Append(stack, get_constant(idx))
               /\ frames' = offset_ip(2)
               /\ UNCHANGED <<current_frame, globals, cells, uplists, output, captures>>

\* globals is a HashMap<String, Value>, kept as a sequence of bindings
\* with one binding per key
HasGlobal(name) == \E i \in 1..Len(globals) : globals[i].name = name
GlobalOf(name) == globals[CHOOSE i \in 1..Len(globals) : globals[i].name = name].val
InsertGlobal(name, val) ==
    IF HasGlobal(name)
    THEN [i \in 1..Len(globals) |->
            IF globals[i].name = name THEN [name |-> name, val |-> val] ELSE globals[i]]
    ELSE Append(globals, [name |-> name, val |-> val])

SetGlobal ==
    /\ Dispatch(OpSetGlobal)
    /\ LET idx == read_byte(get_ip + 1)
       IN IF ~HasConstant(idx) \/ Len(stack) = 0 THEN Abort
          ELSE IF get_constant(idx).tag # "Str" THEN Abort
          ELSE /\ Continuing
               /\ globals' = InsertGlobal(get_constant(idx).s, Top)
               /\ stack' = Popped
               /\ frames' = offset_ip(2)
               /\ UNCHANGED <<current_frame, cells, uplists, output, captures>>

\* a GetGlobal that looks in globals before the FFI
GetGlobal_shadowed ==
    /\ Dispatch(OpGetGlobal)
    /\ LET idx == read_byte(get_ip + 1)
       IN IF ~HasConstant(idx) THEN Abort
          ELSE IF get_constant(idx).tag # "Str" THEN Abort
          ELSE LET x == get_constant(idx).s
               IN /\ Continuing
                  /\ stack' = IF HasGlobal(x) THEN Append(stack, GlobalOf(x))
                              ELSE IF FFI_has(x) THEN Append(stack, VNative(x))
                              ELSE stack
                  /\ frames' = offset_ip(2)
                  /\ UNCHANGED <<current_frame, globals, cells, uplists, output,
                                 captures>>

GetGlobal ==
    /\ Dispatch(OpGetGlobal)
    /\ LET idx == read_byte(get_ip + 1)
       IN IF ~HasConstant(idx) THEN Abort
          ELSE IF get_constant(idx).tag # "Str" THEN Abort
          ELSE LET x == get_constant(idx).s
               IN /\ Continuing
                  /\ stack' = IF FFI_has(x) THEN Append(stack, VNative(x))
                              ELSE IF HasGlobal(x) THEN Append(stack, GlobalOf(x))
                              ELSE stack
                  /\ frames' = offset_ip(2)
                  /\ UNCHANGED <<current_frame, globals, cells, uplists, output,
                                 captures>>

\* the value is popped before the slot is indexed
SetLocal ==
    /\ Dispatch(OpSetLocal)
    /\ LET idx == read_byte(get_ip + 1)
           ss == stack_start
       IN IF Len(stack) = 0 THEN Abort
          ELSE IF ss + idx < 0 \/ ss + idx >= Len(stack) - 1 THEN Abort
          ELSE /\ Continuing
               /\ stack' = [Popped EXCEPT ![ss + idx + 1] = Top]
               /\ frames' = offset_ip(2)
               /\ UNCHANGED <<current_frame, globals, cells, uplists, output, captures>>

GetLocal ==
    /\ Dispatch(OpGetLocal)
    /\ LET idx == read_byte(get_ip + 1)
       IN IF ~InStack(stack_start + idx) THEN Abort
          ELSE /\ Continuing
               /\ stack' = Append(stack, stack[stack_start + idx + 1])
               /\ frames' = offset_ip(2)
               /\ UNCHANGED <<current_frame, globals, cells, uplists, output, captures>>

\* native.rs: FFI::call with the callbacks of main.rs 70-96; time reads the
\* clock, so its result is any of a few instants
Times == {1, 2}

\* the Value::Closure arm, vm.rs 335-341: len() - nargs underflows when fewer
\* than nargs values are left; that panics in a build with overflow checks
\* and wraps in one without
\* a Closure arm that pushes the frame and leaves current_frame behind
CallClosure_stale(c, nargs) ==
    IF Len(Popped) < nargs /\ checked THEN Abort
    ELSE /\ Len(frames) < MaxFrames
         /\ Continuing
         /\ stack' = Popped
         /\ frames' = Append(offset_ip(2), CallFrame_new(c, Len(Popped) - nargs))
         /\ UNCHANGED <<current_frame, globals, cells, uplists, output, captures>>

CallClosure(c, nargs) ==
    IF Len(Popped) < nargs /\ checked THEN Abort
    ELSE /\ Len(frames) < MaxFrames
         /\ Continuing
         /\ stack' = Popped
         /\ current_frame' = current_frame + 1
         /\ frames' = Append(offset_ip(2), CallFrame_new(c, Len(Popped) - nargs))
         /\ UNCHANGED <<globals, cells, uplists, output, captures>>

\* a Native arm that drops the callback's result
CallNative_noresult(name) ==
    IF Len(Popped) = 0 THEN Abort
    ELSE /\ Continuing
         /\ frames' = offset_ip(2)
         /\ stack' = Popped2
         /\ output' = IF name = "print"
                       THEN Append(output, Display(stack[Len(stack) - 1], cells))
                       ELSE output
         /\ UNCHANGED <<current_frame, globals, cells, uplists, captures>>

\* the Value::Native arm, vm.rs 343-346
CallNative(name) ==
    IF Len(Popped) = 0 THEN Abort
    ELSE LET arg == stack[Len(stack) - 1]
         IN /\ frames' = offset_ip(2)
            /\ UNCHANGED <<current_frame, globals, cells, uplists, captures>>
            /\ \/ /\ name = "print"
                  /\ Continuing
                  /\ output' = Append(output, Display(arg, cells))
                  /\ stack' = Append(Popped2, VBool(FALSE))
               \/ /\ name = "exit"
                  /\ status' = "exit"
                  /\ output' = Append(output, "exiting")
                  /\ stack' = Popped2
               \/ /\ name = "time"
                  /\ Continuing
                  /\ output' = output
                  /\ \E t \in Times : stack' = Append(Popped2, VFloat(FromInt(t)))

Call_ ==
    /\ Dispatch(OpCall)
    /\ IF Len(stack) = 0 THEN Abort
       ELSE LET nargs == read_byte(get_ip + 1)
                f == IF Top.tag = "HeapedData" THEN cells[Top.cell] ELSE Top
            IN IF f.tag = "Closure" THEN CallClosure(f.c, nargs)
               ELSE IF f.tag = "Native" THEN CallNative(f.name)
               ELSE Abort

JumpIfFalse ==
    /\ Dispatch(OpJumpIfFalse)
    /\ IF ~InCode(get_ip + 2) \/ Len(stack) = 0 THEN Abort
       ELSE LET offset == read_byte_double(Code, get_ip + 1)
            IN /\ Continuing
               /\ stack' = Popped
               /\ frames' = IF is_falsey(Top) THEN offset_ip(offset) ELSE offset_ip(3)
               /\ UNCHANGED <<current_frame, globals, cells, uplists, output, captures>>

Jump ==
    /\ Dispatch(OpJump)
    /\ IF ~InCode(get_ip + 2) THEN Abort
       ELSE /\ Continuing
            /\ frames' = offset_ip(read_byte_double(Code, get_ip + 1))
            /\ UNCHANGED <<current_frame, stack, globals, cells, uplists, output,
                           captures>>

AbsJump ==
    /\ Dispatch(OpAbsJump)
    /\ IF ~InCode(get_ip + 2) THEN Abort
       ELSE /\ Continuing
            /\ frames' = set_ip(read_byte_double(Code, get_ip + 1))
            /\ UNCHANGED <<current_frame, stack, globals, cells, uplists, output,
                           captures>>

\* a capture that boxes a closure without its upvalue list
capture_upvalue_bare(st, h, idx) ==
    LET val == st[idx + 1]
    IN CASE val.tag = "Closure" ->
              [cells |-> Append(h, VClosure(Closure_new(val.c.function, 1))),
               cell |-> Len(h) + 1]
         [] val.tag = "HeapedData" -> [cells |-> h, cell |-> val.cell]
         [] OTHER -> [cells |-> Append(h, val), cell |-> Len(h) + 1]

\* vm.rs 97-110, on the stack st and the heap h; returns the heap and the cell
capture_upvalue(st, h, idx) ==
    LET val == st[idx + 1]
    IN CASE val.tag = "Closure" ->
              [cells |-> Append(h, VClosure(Closure_new(val.c.function, val.c.upvalues))),
               cell |-> Len(h) + 1]
         [] val.tag = "HeapedData" -> [cells |-> h, cell |-> val.cell]
         [] OTHER -> [cells |-> Append(h, val), cell |-> Len(h) + 1]

\* the upvalue binding loop of MakeClosure (vm.rs 383-398): b is the state of
\* the loop before iteration j; st is the stack with the new closure pushed
RECURSIVE BindUpvalues(_, _, _, _)
BindUpvalues(j, upvalue_count, st, b) ==
    IF j >= upvalue_count \/ ~b.ok THEN b
    ELSE LET lip == get_ip + 2 + 2 * j
         IN IF ~InCode(lip + 1) THEN [b EXCEPT !.ok = FALSE]
            ELSE LET is_local == read_byte(lip)
                     idx == read_byte(lip + 1)
                 IN IF is_local # 0
                    THEN LET slot == stack_start + idx
                         IN IF slot < 0 \/ slot >= Len(st) THEN [b EXCEPT !.ok = FALSE]
                            ELSE LET r == capture_upvalue(st, b.cells, slot)
                                 IN BindUpvalues(j + 1, upvalue_count, st,
                                       [b EXCEPT !.cells = r.cells,
                                                 !.upvalues = Append(@, r.cell),
                                                 !.captures = @ \cup
                                                    {[frame |-> current_frame,
                                                      slot |-> slot,
                                                      cell |-> r.cell]}])
                    ELSE IF idx >= Len(UpvaluesOf(Frame.closure))
                         THEN [b EXCEPT !.ok = FALSE]
                         ELSE BindUpvalues(j + 1, upvalue_count, st,
                                 [b EXCEPT !.upvalues =
                                      Append(@, UpvaluesOf(Frame.closure)[idx + 1])])

MakeClosure ==
    /\ Dispatch(OpMakeClosure)
    /\ LET idx == read_byte(get_ip + 1)
       IN IF ~HasConstant(idx) THEN Abort
          ELSE IF get_constant(idx).tag # "Function" THEN Abort
          ELSE LET f == get_constant(idx).f
                   closure == Closure_new(f, Len(uplists) + 1)
                   st == Append(stack, VClosure(closure))
                   b == BindUpvalues(0, f.upvalue_count, st,
                           [ok |-> TRUE, cells |-> cells, upvalues |-> <<>>,
                            captures |-> captures])
               IN IF ~b.ok THEN Abort
                  ELSE /\ Continuing
                       /\ stack' = st
                       /\ uplists' = Append(uplists, b.upvalues)
                       /\ cells' = b.cells
                       /\ captures' = b.captures
                       /\ frames' = offset_ip(2 + 2 * f.upvalue_count)
                       /\ UNCHANGED <<current_frame, globals, output>>

Next ==
    \/ run
    \/ repl
    \/ Halt
    \/ Return_
    \/ Pop
    \/ IsEqual
    \/ Add
    \/ Subtract
    \/ Multiply
    \/ Divide
    \/ SetUpvalue
    \/ GetUpvalue
    \/ LoadConstant
    \/ SetGlobal
    \/ GetGlobal
    \/ SetLocal
    \/ GetLocal
    \/ Call_
    \/ JumpIfFalse
    \/ Jump
    \/ AbsJump
    \/ MakeClosure

Spec == Init /\ [][Next]_vars

(***************************************************************************)
(* Instruction layout of a compiled Function: the width of each opcode is  *)
(* how far its arm of VM::run moves ip past it.                            *)
(***************************************************************************)
InstrWidth(f, i) ==
    LET op == f.chunk.code[i + 1]
    IN CASE op \in {OpReturn, OpPop, OpLoadTrue, OpNegate, OpIsEqual, OpAdd,
                    OpSubtract, OpMultiply, OpDivide} -> 1
         [] op \in {OpSetUpvalue, OpGetUpvalue, OpLoadConstant, OpSetGlobal,
                    OpGetGlobal, OpSetLocal, OpGetLocal, OpCall} -> 2
         [] op \in {OpJumpIfFalse, OpJump, OpAbsJump} -> 3
         [] op = OpMakeClosure ->
              LET c == f.chunk.constants[f.chunk.code[i + 2] + 1]
              IN IF c.tag = "Function" THEN 2 + 2 * c.f.upvalue_count ELSE 2

\* the starts of the next n instructions from offset i, and the offset after
\* them
RECURSIVE InstrRun(_, _, _)
InstrRun(f, i, n) ==
    IF n = 0 \/ i >= Len(f.chunk.code) THEN <<{}, i>>
    ELSE LET r == InstrRun(f, i + InstrWidth(f, i), n - 1)
         IN <<{i} \cup r[1], r[2]>>

RECURSIVE InstrStartsFrom(_, _)
InstrStartsFrom(f, i) ==
    IF i >= Len(f.chunk.code) THEN {}
    ELSE LET r == InstrRun(f, i, 32)
         IN r[1] \cup InstrStartsFrom(f, r[2])

InstrStarts(f) == InstrStartsFrom(f, 0)

IsJump(op) == op \in {OpJumpIfFalse, OpJump, OpAbsJump}

JumpTarget(f, i) ==
    IF f.chunk.code[i + 1] = OpAbsJump
    THEN read_byte_double(f.chunk.code, i + 1)
    ELSE i + read_byte_double(f.chunk.code, i + 1)

RECURSIVE JumpsOK(_)
JumpsOK(f) ==
    /\ LET starts == InstrStarts(f)
       IN \A i \in starts :
             IsJump(f.chunk.code[i + 1]) =>
                /\ read_byte_double(f.chunk.code, i + 1) # 65535
                /\ JumpTarget(f, i) \in starts
    /\ \A k \in 1..Len(f.chunk.constants) :
          f.chunk.constants[k].tag = "Function" => JumpsOK(f.chunk.constants[k].f)

LambdasOK(f) ==
    \A k \in 1..Len(f.chunk.constants) :
       f.chunk.constants[k].tag = "Function" => JumpsOK(f.chunk.constants[k].f)

\* unsigned comparison of two usize values in their signed reading
ULe(a, b) == IF (a < 0) = (b < 0) THEN a <= b ELSE b < 0

Compiled == status \notin {"start", "compile_panic"}

TopFunction == cc.ctxs[1].function

\* the frame that dispatched the last instruction, its code and operand
LastFrame == last.frames[Len(last.frames)]
LastCode == LastFrame.closure.function.chunk.code
LastOperand == LastCode[LastFrame.ip + 2]
LastTop == last.stack[Len(last.stack)]

\* what a read of a stack slot yields: a HeapedData reads as its cell
ReadSlot(v) == IF v.tag = "HeapedData" THEN cells[v.cell] ELSE v

(***************************************************************************)
(* C1.  After MakeClosure captured a local slot, a SetUpvalue on that      *)
(* upvalue is observed by every closure that captured the same local and   *)
(* by the defining frame's slot: all read the value last written.          *)
(***************************************************************************)
C1_CaptureByReference ==
    (status = "running" /\ last.op = OpSetUpvalue) =>
        LET w == uplists[LastFrame.closure.upvalues][LastOperand + 1]
            v == LastTop
        IN \A r \in captures :
              r.cell = w =>
                 /\ \A r2 \in captures :
                       (r2.frame = r.frame /\ r2.slot = r.slot) => cells[r2.cell] = v
                 /\ InStack(r.slot) => ReadSlot(stack[r.slot + 1]) = v

(***************************************************************************)
(* C2.  When a program completes without error (run returns Ok), the       *)
(* operand stack is empty.                                                 *)
(***************************************************************************)
C2_StackEmptyAtEnd == status = "ok" => Len(stack) = 0

(***************************************************************************)
(* C3.  A Return executed while a caller frame remains leaves the stack    *)
(* as its prefix [0, s) followed by the result, s the stack_start of the   *)
(* popped frame: length s + 1, and no slot below s changed.                *)
(***************************************************************************)
ReturnedToCaller ==
    status = "running" /\ last.op = OpReturn /\ Len(last.frames) > 1

C3_ReturnTruncates ==
    ReturnedToCaller =>
        LET s == LastFrame.stack_start
        IN /\ Len(stack) = s + 1
           /\ stack[s + 1] = LastTop
           /\ \A i \in 1..s : stack[i] = last.stack[i]
           /\ Len(frames) = Len(last.frames) - 1

\* a Return that discarded callee slots above a non-empty caller prefix
C3_Witness ==
    /\ ReturnedToCaller
    /\ LastFrame.stack_start > 0
    /\ Len(last.stack) > LastFrame.stack_start + 1

(***************************************************************************)
(* C4.  Call n on a Closure pops the callee, advances the caller's ip by   *)
(* 2 and pushes a frame with ip = 0 and stack_start = len - n, so that     *)
(* stack_start <= stack.len().                                             *)
(***************************************************************************)
LastCallee ==
    IF LastTop.tag = "HeapedData" THEN last.cells[LastTop.cell] ELSE LastTop

CalledClosure ==
    /\ last.op = OpCall
    /\ Len(last.stack) > 0
    /\ LastCallee.tag = "Closure"

C4_CallPushesFrame ==
    CalledClosure =>
        /\ status = "running"
        /\ Len(frames) = Len(last.frames) + 1
        /\ frames[Len(frames)].ip = 0
        /\ frames[Len(frames)].stack_start = Len(stack) - LastOperand
        /\ ULe(frames[Len(frames)].stack_start, Len(stack))
        /\ frames[Len(last.frames)].ip = LastFrame.ip + 2
        /\ Len(stack) = Len(last.stack) - 1

(***************************************************************************)
(* C5.  Stack position stack_start + i holds the variable the compiler     *)
(* resolved to local index i: when the initializer of a Let has been       *)
(* evaluated, its value is on top of the stack at slot stack_start + i.    *)
(***************************************************************************)
\* the frame has just finished the initializer that ends at code offset at:
\* it moved forward to at, or a call made by the initializer returned to at
InitializerDone(at) ==
    /\ status = "running"
    /\ Len(frames) > 0
    /\ get_ip = at
    /\ \/ Len(last.frames) = Len(frames) /\ LastFrame.ip < at
       \/ Len(last.frames) = Len(frames) + 1 /\ last.op = OpReturn

C5_LocalSlots ==
    (status = "running" /\ Len(frames) > 0) =>
        \A j \in 1..Len(Frame.closure.function.lets) :
           LET l == Frame.closure.function.lets[j]
           IN InitializerDone(l.at) => Len(stack) = stack_start + l.idx + 1

JumpsToEnd(f) ==
    {i \in InstrStarts(f) :
        IsJump(f.chunk.code[i + 1]) /\ JumpTarget(f, i) = Len(f.chunk.code)}

C7_GetFallsBackToGlobal ==
    \A i \in 1..Len(cc.log) :
       (cc.log[i].ev = "Get" /\ ~cc.log[i].any_local) => cc.log[i].out = "global"

(***************************************************************************)
(* C8.  A Set of a name that is neither a local nor an upvalue compiles to *)
(* SetGlobal exactly when a global of that name was previously defined,    *)
(* and is a compile-time error otherwise.                                  *)
(***************************************************************************)
C8_SetResolution ==
    \A i \in 1..Len(cc.log) :
       (cc.log[i].ev = "Set" /\ ~cc.log[i].any_local) =>
          cc.log[i].out = (IF cc.log[i].global_defined THEN "SetGlobal" ELSE "panic")

(***************************************************************************)
(* C9.  Break or Continue with no enclosing Loop in the function context   *)
(* being compiled aborts compilation: no Function is produced and no VM    *)
(* is started.                                                             *)
(***************************************************************************)
RECURSIVE StrayJump(_, _)
StrayJump(expr, in_loop) ==
    CASE expr.k \in {"Break", "Continue"} -> ~in_loop
      [] expr.k = "Loop" -> StrayJump(expr.body, TRUE)
      [] expr.k = "Lambda" -> StrayJump(expr.body, FALSE)
      [] expr.k = "Block" ->
           \E i \in 1..Len(expr.exprs) : StrayJump(expr.exprs[i], in_loop)
      [] expr.k = "If" ->
           StrayJump(expr.c, in_loop) \/ StrayJump(expr.t, in_loop)
              \/ StrayJump(expr.e, in_loop)
      [] expr.k = "Call" ->
           StrayJump(expr.callee, in_loop)
              \/ \E i \in 1..Len(expr.args) : StrayJump(expr.args[i], in_loop)
      [] expr.k \in {"Let", "Set"} -> StrayJump(expr.value, in_loop)
      [] expr.k = "Return" -> StrayJump(expr.expr, in_loop)
      [] OTHER -> FALSE

C9_StrayJumpAborts ==
    (status # "start" /\ StrayJump(core, FALSE)) =>
        /\ status = "compile_panic"
        /\ cc.panicked
        /\ Len(frames) = 0

\* compilation aborted at a Break or Continue inside a Lambda
C9_Witness ==
    /\ status = "compile_panic"
    /\ StrayJump(core, FALSE)
    /\ \E i \in 1..Len(cc.log) :
          /\ cc.log[i].ev \in {"Break", "Continue"}
          /\ cc.log[i].loops = 0
          /\ cc.log[i].depth > 0

(***************************************************************************)
(* C10.  Call n on a Closure whose arity differs from n is a runtime       *)
(* error: no frame is pushed and the callee body does not execute.         *)
(***************************************************************************)
C10_ArityChecked ==
    (CalledClosure /\ LastCallee.c.function.arity # LastOperand) =>
        /\ status # "running"
        /\ Len(frames) = Len(last.frames)

\* the constants of the chunk that held the last instruction, and the two
\* operands a binary instruction found: y on top, x below it
LastConstants == LastFrame.closure.function.chunk.constants
LastName == LastConstants[LastOperand + 1]
LastY == last.stack[Len(last.stack)]
LastX == last.stack[Len(last.stack) - 1]
ArithOps == {OpAdd, OpSubtract, OpMultiply, OpDivide}

(***************************************************************************)
(* C11.  GetGlobal of a name that is neither a registered native nor a key *)
(* of globals ends the run with a runtime error; execution does not go on  *)
(* with nothing pushed.                                                    *)
(***************************************************************************)
UnboundGet ==
    /\ last.op = OpGetGlobal
    /\ LastOperand < Len(LastConstants)
    /\ LastName.tag = "Str"
    /\ ~FFI_has(LastName.s)
    /\ ~HasGlobal(LastName.s)

C11_UnboundGetGlobalFails == UnboundGet => status = "error"

(***************************************************************************)
(* C12.  A runtime error (a non-numeric operand of an arithmetic           *)
(* instruction, a Call on a value that is not callable) ends the run with  *)
(* an error status returned to the caller of run; the host process is not  *)
(* aborted.                                                                *)
(***************************************************************************)
RuntimeError ==
    \/ /\ last.op \in ArithOps
       /\ Len(last.stack) >= 2
       /\ ~(Numeric(LastX) /\ Numeric(LastY))
    \/ /\ last.op = OpCall
       /\ Len(last.stack) > 0
       /\ LastCallee.tag \notin {"Closure", "Native"}

C12_RuntimeErrorReturned == RuntimeError => status = "error"

(***************************************************************************)
(* C13.  Arithmetic on a captured variable: when an operand of Add,        *)
(* Subtract, Multiply or Divide is the Int or Float read by GetUpvalue,    *)
(* the instruction pushes the result it pushes for the plain values.       *)
(***************************************************************************)
Plain(v) == IF v.tag = "HeapedData" THEN last.cells[v.cell] ELSE v

UpvalueArithmetic ==
    /\ last.op \in ArithOps
    /\ Len(last.stack) >= 2
    /\ "HeapedData" \in {LastX.tag, LastY.tag}
    /\ Numeric(Plain(LastX)) /\ Numeric(Plain(LastY))

C13_UpvalueArithmetic ==
    UpvalueArithmetic =>
        /\ status \in {"running", "ok"}
        /\ Len(stack) = Len(last.stack) - 1
        /\ Top = Arith(last.op, Plain(LastX), Plain(LastY))

(***************************************************************************)
(* C14.  An upvalue cell outlives the frame that defined the captured      *)
(* local: the value read by GetUpvalue i of a closure is the value last    *)
(* written by SetUpvalue i of that closure, in whichever call it was       *)
(* written, until the cell is written again.                               *)
(***************************************************************************)
\* the writes through upvalue i of the upvalue list u, as indices of the
\* history, and the last of them
WritesTo(u, i) ==
    {k \in 1..Len(hist.upwrites) : hist.upwrites[k].u = u /\ hist.upwrites[k].i = i}

LastWrite(u, i) == CHOOSE k \in WritesTo(u, i) : \A k2 \in WritesTo(u, i) : k2 <= k

\* GetUpvalue i has just read an upvalue that was written through the same
\* closure and whose cell was not written since
ReadWritten ==
    /\ last.op = OpGetUpvalue
    /\ status = "running"
    /\ WritesTo(LastFrame.closure.upvalues, LastOperand) # {}
    /\ LET k == LastWrite(LastFrame.closure.upvalues, LastOperand)
       IN \A k2 \in (k + 1)..Len(hist.upwrites) :
             hist.upwrites[k2].cell # hist.upwrites[k].cell

C14_UpvalueOutlivesFrame ==
    ReadWritten =>
        /\ Top.tag = "HeapedData"
        /\ cells[Top.cell] =
              hist.upwrites[LastWrite(LastFrame.closure.upvalues, LastOperand)].v

\* the read happens in a later call than the write, after the frame that
\* defined the captured local has returned
C14_Witness ==
    /\ ReadWritten
    /\ LET w == hist.upwrites[LastWrite(LastFrame.closure.upvalues, LastOperand)]
       IN /\ w.act # hist.acts[Len(hist.acts)]
          /\ \A r \in captures : r.cell # w.cell
          /\ Top.tag = "HeapedData" /\ cells[Top.cell] = VInt(5)

(***************************************************************************)
(* C15.  GetGlobal of a name registered in the FFI pushes Native(name)     *)
(* whatever globals holds for that name; SetGlobal of such a name pops the *)
(* value into the globals map and changes nothing else.                    *)
(***************************************************************************)
LastNamesNative ==
    /\ status = "running"
    /\ LastOperand < Len(LastConstants)
    /\ LastName.tag = "Str"
    /\ FFI_has(LastName.s)

C15_NativeNotShadowed ==
    /\ (last.op = OpGetGlobal /\ LastNamesNative) =>
          /\ stack = Append(last.stack, VNative(LastName.s))
          /\ globals = last.globals
    /\ (last.op = OpSetGlobal /\ LastNamesNative) =>
          /\ HasGlobal(LastName.s) /\ GlobalOf(LastName.s) = LastY
          /\ \A i \in 1..Len(last.globals) :
                last.globals[i].name # LastName.s => globals[i] = last.globals[i]
          /\ stack = SubSeq(last.stack, 1, Len(last.stack) - 1)
          /\ FFI_has(LastName.s)

\* a GetGlobal of a native name that a SetGlobal has bound in globals
C15_Witness ==
    /\ last.op = OpGetGlobal
    /\ LastNamesNative
    /\ HasGlobal(LastName.s)
    /\ Top = VNative(LastName.s)

(***************************************************************************)
(* C16.  Call n on Native(name) pops the callee and exactly one value, the *)
(* top of the stack, whatever n is; it pushes the result of the callback,  *)
(* advances ip by 2 and pushes no frame; globals are unchanged.            *)
(***************************************************************************)
\* the last instruction called a native whose callback returns, with a
\* value below the callee
CalledNative ==
    /\ last.op = OpCall
    /\ Len(last.stack) >= 2
    /\ LastCallee.tag = "Native"
    /\ LastCallee.name \in {"print", "time"}

C16_NativeCallIsUnary ==
    CalledNative =>
        /\ status \in {"running", "ok"}
        /\ Len(stack) = Len(last.stack) - 1
        /\ SubSeq(stack, 1, Len(stack) - 1) = SubSeq(last.stack, 1, Len(last.stack) - 2)
        /\ IF LastCallee.name = "print"
           THEN /\ Top = VBool(FALSE)
                /\ output = Append(last.output, Display(LastX, last.cells))
           ELSE /\ Top.tag = "Float"
                /\ output = last.output
        /\ Len(frames) = Len(last.frames)
        /\ frames[Len(frames)].ip = LastFrame.ip + 2
        /\ frames[Len(frames)].stack_start = LastFrame.stack_start
        /\ globals = last.globals

\* a native called with an argument count other than one
C16_Witness ==
    /\ CalledNative
    /\ status = "running"
    /\ LastOperand = 2
    /\ Len(stack) = Len(last.stack) - 1

\* the stack below the operands of the last instruction, which popped n
Below(n) == SubSeq(last.stack, 1, Len(last.stack) - n)

(***************************************************************************)
(* C17.  For numeric operands x (below) and y (on top), Add, Subtract and  *)
(* Multiply push x op y, an Int exactly when both are Int and a Float when *)
(* either is a Float; Divide pushes a Float for every numeric pair, Int    *)
(* by Int included; each pops two values and pushes one.                   *)
(***************************************************************************)
NumericOperands ==
    /\ last.op \in ArithOps
    /\ Len(last.stack) >= 2
    /\ Numeric(LastX) /\ Numeric(LastY)

\* x op y over the exact fractions of the operands
Exact(op, a, b) ==
    CASE op = OpAdd -> FAdd(a, b)
      [] op = OpSubtract -> FSub(a, b)
      [] op = OpMultiply -> FMul(a, b)
      [] op = OpDivide -> FDiv(a, b)

C17_ArithmeticPromotion ==
    NumericOperands =>
        /\ status \in {"running", "ok"}
        /\ stack = Append(Below(2), Top)
        /\ Top.tag = (IF LastX.tag = "Int" /\ LastY.tag = "Int" /\ last.op # OpDivide
                      THEN "Int" ELSE "Float")
        /\ Num(Top) = Exact(last.op, Num(LastX), Num(LastY))

\* Int 3 divided by Int -2 gave the Float -1.5
C17_Witness ==
    /\ NumericOperands
    /\ status = "running"
    /\ last.op = OpDivide
    /\ LastX = VInt(3) /\ LastY = VInt(-2)
    /\ Top = VFloat(F(-3, 2))

(***************************************************************************)
(* C18.  IsEqual is total: for any two values it pops both and pushes one  *)
(* Bool without error, the comparison of the payloads for Int/Int,         *)
(* Float/Float and Bool/Bool and Bool(false) for every other pair.         *)
(***************************************************************************)
Compared == last.op = OpIsEqual /\ Len(last.stack) >= 2

C18_IsEqualTotal ==
    Compared =>
        /\ status \in {"running", "ok"}
        /\ stack = Append(Below(2), Top)
        /\ Top.tag = "Bool"
        /\ Top.b = CASE LastX.tag = "Int" /\ LastY.tag = "Int" -> LastX.n = LastY.n
                     [] LastX.tag = "Float" /\ LastY.tag = "Float" ->
                          FEq(LastX.x, LastY.x)
                     [] LastX.tag = "Bool" /\ LastY.tag = "Bool" -> LastX.b = LastY.b
                     [] OTHER -> FALSE

\* two equal Strs compared: Bool(false)
C18_Witness ==
    /\ Compared
    /\ status = "running"
    /\ LastX = VStr("a") /\ LastY = VStr("a")
    /\ Top = VBool(FALSE)

(***************************************************************************)
(* C19.  JumpIfFalse d pops its condition and advances ip by d exactly     *)
(* when the popped value is Bool(false) or Int(0), and by 3 for every      *)
(* other value.                                                            *)
(***************************************************************************)
Branched == last.op = OpJumpIfFalse /\ Len(last.stack) >= 1

C19_Truthiness ==
    Branched =>
        /\ status \in {"running", "ok"}
        /\ stack = Below(1)
        /\ Len(frames) = Len(last.frames)
        /\ frames[Len(frames)].ip =
              LastFrame.ip + (IF LastY = VBool(FALSE) \/ LastY = VInt(0)
                              THEN read_byte_double(LastCode, LastFrame.ip + 1)
                              ELSE 3)

\* a HeapedData whose cell holds Int(0) is truthy
C19_Witness ==
    /\ Branched
    /\ status = "running"
    /\ LastY.tag = "HeapedData"
    /\ last.cells[LastY.cell] = VInt(0)
    /\ frames[Len(frames)].ip = LastFrame.ip + 3
    /\ read_byte_double(LastCode, LastFrame.ip + 1) # 3

(***************************************************************************)
(* C20.  An operand that does not fit its encoding is rejected at compile  *)
(* time, never truncated: when compilation succeeds, the operand byte of   *)
(* every LoadConstant emitted for a literal is the index the constant was  *)
(* given in the pool.                                                      *)
(***************************************************************************)
C20_OperandOverflowRejected ==
    Compiled =>
        \A k \in 1..Len(cc.log) :
            cc.log[k].ev = "Lit" => cc.log[k].operand = cc.log[k].assigned

(***************************************************************************)
(* C21.  The call-frame stack never grows beyond the frame cap (FrameCap   *)
(* stands for the configurable cap): a Call on a Closure made with         *)
(* FrameCap frames live is a runtime error and pushes no frame.            *)
(***************************************************************************)
C21_FrameCapEnforced ==
    /\ Len(frames) <= FrameCap
    /\ (CalledClosure /\ Len(last.frames) = FrameCap) =>
          /\ status = "error"
          /\ Len(frames) = Len(last.frames)

(***************************************************************************)
(* C22.  Divide with an Int dividend and the divisor Int(0) is a runtime   *)
(* error: the run stops with an error status and no quotient is pushed.    *)
(***************************************************************************)
IntByZero ==
    /\ last.op = OpDivide
    /\ Len(last.stack) >= 2
    /\ LastX.tag = "Int"
    /\ LastY = VInt(0)

C22_IntDivideByZeroFails ==
    IntByZero =>
        /\ status = "error"
        /\ Len(stack) < Len(last.stack)

(***************************************************************************)
(* C23.  Globals persist across REPL lines: a GetGlobal of a name that an  *)
(* earlier line of the session left in globals finds it and pushes its     *)
(* value.                                                                  *)
(***************************************************************************)
ReadsEarlierGlobal ==
    /\ last.op = OpGetGlobal
    /\ LastOperand < Len(LastConstants)
    /\ LastName.tag = "Str"
    /\ LastName.s \in hist.earlier
    /\ ~FFI_has(LastName.s)

C23_GlobalsPersist ==
    ReadsEarlierGlobal =>
        /\ status = "running"
        /\ Len(stack) = Len(last.stack) + 1

(***************************************************************************)
(* C24.  The dispatch loop stops with success at the first Return that     *)
(* empties the frame stack, and when the current frame's ip is not below   *)
(* its chunk length; once it has stopped no instruction is dispatched and  *)
(* the VM is not touched again (the only step left is the REPL reading its *)
(* next line).                                                             *)
(***************************************************************************)
LastFrameReturned ==
    /\ last.op = OpReturn
    /\ Len(last.frames) = 1
    /\ Len(last.stack) >= 1

StopsAtEnd ==
    (status = "running" /\ ~InCode(get_ip)) =>
        /\ status' = "ok"
        /\ UNCHANGED <<vmvars, steps, last>>

StaysStopped ==
    status = "ok" =>
        /\ status' = "start"
        /\ steps' = 0
        /\ frames' = <<>>

C24_LoopStops ==
    /\ [](LastFrameReturned => (status = "ok" /\ frames = <<>>))
    /\ [][StopsAtEnd /\ StaysStopped]_vars

\* a top-level Return ended the run with a value left below the result
C24_Witness ==
    /\ LastFrameReturned
    /\ status = "ok"
    /\ frames = <<>>
    /\ stack # <<>>

\* the Functions nested in f as constants, at any depth, and f itself
RECURSIVE FunctionsIn(_)
FunctionsIn(f) ==
    {f} \cup UNION {FunctionsIn(f.chunk.constants[k].f) :
                      k \in {j \in 1..Len(f.chunk.constants) :
                               f.chunk.constants[j].tag = "Function"}}

MarksOf(f, kind) == {j \in 1..Len(f.marks) : f.marks[j].k = kind}

(***************************************************************************)
(* C25.  In the code of If(c, t, e) the JumpIfFalse that follows c holds   *)
(* the distance from its own address to the first byte of e, and the Jump  *)
(* that follows t the distance from its own address to the first byte      *)
(* after e.  Executed, the JumpIfFalse goes on in t when the value of c is *)
(* truthy and at the first byte of e when it is falsey, and the Jump at    *)
(* the end of t lands on the first byte after e.                           *)
(***************************************************************************)
IfPatched(f) ==
    \A j \in MarksOf(f, "If") :
       LET m == f.marks[j]
           code == f.chunk.code
       IN /\ code[m.jif + 1] = OpJumpIfFalse
          /\ code[m.jmp + 1] = OpJump
          /\ m.jif + 3 <= m.jmp
          /\ m.els = m.jmp + 3
          /\ m.els <= m.fin
          /\ m.fin <= Len(code)
          /\ m.jif + read_byte_double(code, m.jif + 1) = m.els
          /\ m.jmp + read_byte_double(code, m.jmp + 1) = m.fin

\* the If of the running function whose JumpIfFalse or Jump was executed last
LastIf(field) ==
    {j \in MarksOf(LastFrame.closure.function, "If") :
        LastFrame.closure.function.marks[j][field] = LastFrame.ip}

C25_IfBranches ==
    /\ Compiled => \A f \in FunctionsIn(TopFunction) : IfPatched(f)
    /\ (last.op = OpJumpIfFalse /\ Len(last.stack) >= 1) =>
          /\ status \in {"running", "ok"}
          /\ LastIf("jif") # {}
          /\ \A j \in LastIf("jif") :
                frames[Len(frames)].ip =
                    IF is_falsey(LastY) THEN LastFrame.closure.function.marks[j].els
                    ELSE LastFrame.ip + 3
    /\ last.op = OpJump =>
          /\ status \in {"running", "ok"}
          /\ LastIf("jmp") # {}
          /\ \A j \in LastIf("jmp") :
                frames[Len(frames)].ip = LastFrame.closure.function.marks[j].fin

\* the Jump that ends a true branch landed on the instruction after the
\* false branch, inside the function
C25_Witness ==
    /\ last.op = OpJump
    /\ status = "running"
    /\ \E j \in LastIf("jmp") :
          /\ frames[Len(frames)].ip = LastFrame.closure.function.marks[j].fin
          /\ LastFrame.closure.function.marks[j].fin < Len(LastCode)
          /\ LastFrame.closure.function.marks[j].els <
                LastFrame.closure.function.marks[j].fin

(***************************************************************************)
(* C26.  In every compiled function, for Loops nested to any depth: the    *)
(* AbsJump that closes a Loop targets the Loop's start; every Continue     *)
(* targets the start of its innermost enclosing Loop and every Break the   *)
(* address just after that Loop's closing AbsJump; and compiling a Loop    *)
(* leaves the continue and break patch-list stacks as deep as it found     *)
(* them.                                                                   *)
(***************************************************************************)
Enclosing(f, a) ==
    {j \in MarksOf(f, "Loop") : f.marks[j].start <= a /\ a < f.marks[j].back}

Innermost(f, a) ==
    CHOOSE j \in Enclosing(f, a) :
        \A i \in Enclosing(f, a) : f.marks[j].back <= f.marks[i].back

AbsJumpTo(f, a, target) ==
    /\ f.chunk.code[a + 1] = OpAbsJump
    /\ read_byte_double(f.chunk.code, a + 1) = target

LoopsPatched(f) ==
    /\ \A j \in MarksOf(f, "Loop") :
          LET m == f.marks[j]
          IN /\ m.start <= m.back
             /\ m.exit = m.back + 3
             /\ m.exit <= Len(f.chunk.code)
             /\ AbsJumpTo(f, m.back, m.start)
             /\ m.continues[2] = m.continues[1]
             /\ m.breaks[2] = m.breaks[1]
    /\ \A j \in MarksOf(f, "Continue") :
          /\ Enclosing(f, f.marks[j].at) # {}
          /\ AbsJumpTo(f, f.marks[j].at, f.marks[Innermost(f, f.marks[j].at)].start)
    /\ \A j \in MarksOf(f, "Break") :
          /\ Enclosing(f, f.marks[j].at) # {}
          /\ AbsJumpTo(f, f.marks[j].at, f.marks[Innermost(f, f.marks[j].at)].exit)

C26_LoopPatching == Compiled => \A f \in FunctionsIn(TopFunction) : LoopsPatched(f)

\* three Loops nested in one function, with a Break in the innermost and a
\* Continue and a Break in each of the outer two
C26_Witness ==
    /\ Compiled
    /\ \E b \in MarksOf(TopFunction, "Break") :
          Cardinality(Enclosing(TopFunction, TopFunction.marks[b].at)) = 3
    /\ \A n \in {1, 2} :
          /\ \E b \in MarksOf(TopFunction, "Break") :
                Cardinality(Enclosing(TopFunction, TopFunction.marks[b].at)) = n
          /\ \E c \in MarksOf(TopFunction, "Continue") :
                Cardinality(Enclosing(TopFunction, TopFunction.marks[c].at)) = n

(***************************************************************************)
(* C27.  A name that is a local at slot s of an ancestor function is       *)
(* resolved from the current context to an upvalue index whose descriptor  *)
(* chain is NonLocal(j) in every context deeper than the one directly      *)
(* below the owner, j being the index in the enclosing context, and        *)
(* Local(s) in the context directly below the owner; the owning local is   *)
(* marked captured.  At run time MakeClosure binds each NonLocal(j)        *)
(* upvalue of the new closure to the very cell that is upvalue j of the    *)
(* closure executing the MakeClosure.                                      *)
(***************************************************************************)
UpvalueEvents ==
    {k \in 1..Len(cc.log) :
        /\ cc.log[k].ev \in {"Get", "Set"}
        /\ cc.log[k].out \in {"upvalue", "SetUpvalue"}}

HasLocal(snap, c, name) ==
    \E i \in 1..Len(snap[c + 1].locals) : snap[c + 1].locals[i].name = name

\* the nearest ancestor context of d that has a local of that name, and the
\* slot of its last local of that name
Owner(snap, name, d) ==
    CHOOSE m \in 0..(d - 1) :
        /\ HasLocal(snap, m, name)
        /\ \A c \in (m + 1)..(d - 1) : ~HasLocal(snap, c, name)

Slot(snap, name, m) ==
    CHOOSE s \in 0..(Len(snap[m + 1].locals) - 1) :
        /\ snap[m + 1].locals[s + 1].name = name
        /\ \A i \in (s + 1)..(Len(snap[m + 1].locals) - 1) :
              snap[m + 1].locals[i + 1].name # name

\* upvalue j of context c leads to local s of context m
RECURSIVE ChainOK(_, _, _, _, _)
ChainOK(snap, c, m, s, j) ==
    /\ j >= 0
    /\ j < Len(snap[c + 1].upvalues)
    /\ LET u == snap[c + 1].upvalues[j + 1]
       IN IF c = m + 1 THEN u = UpLocal(s)
          ELSE u.kind = "NonLocal" /\ ChainOK(snap, c - 1, m, s, u.idx)

\* the descriptor pairs that follow the MakeClosure executed last
LastDescriptor(j) ==
    [is_local |-> LastCode[LastFrame.ip + 2 + 2 * j + 1],
     idx |-> LastCode[LastFrame.ip + 2 + 2 * j + 2]]

C27_UpvalueChain ==
    /\ \A k \in UpvalueEvents :
          LET e == cc.log[k]
              m == Owner(e.after, e.name, e.depth)
              s == Slot(e.after, e.name, m)
          IN /\ \E c \in 0..(e.depth - 1) : HasLocal(e.after, c, e.name)
             /\ ChainOK(e.after, e.depth, m, s, e.idx)
             /\ e.after[m + 1].locals[s + 1].captured
    /\ (last.op = OpMakeClosure /\ status = "running") =>
          /\ Top.tag = "Closure"
          /\ Len(UpvaluesOf(Top.c)) = Top.c.function.upvalue_count
          /\ \A j \in 0..(Top.c.function.upvalue_count - 1) :
                LastDescriptor(j).is_local = 0 =>
                   UpvaluesOf(Top.c)[j + 1] =
                      UpvaluesOf(LastFrame.closure)[LastDescriptor(j).idx + 1]

\* a closure was made whose upvalue is shared from the executing closure,
\* for a name resolved three functions up
C27_Witness ==
    /\ last.op = OpMakeClosure
    /\ status = "running"
    /\ Top.c.function.upvalue_count > 0
    /\ LastDescriptor(0).is_local = 0
    /\ UpvaluesOf(Top.c)[1] = UpvaluesOf(LastFrame.closure)[LastDescriptor(0).idx + 1]
    /\ \E k \in UpvalueEvents :
          cc.log[k].depth - Owner(cc.log[k].after, cc.log[k].name, cc.log[k].depth) = 3

(***************************************************************************)
(* C28.  add_upvalue deduplicates: a request for a descriptor already      *)
(* registered in the context returns the index it has and changes          *)
(* nothing, a new descriptor is appended and gets the next index; after    *)
(* every request upvalue_count equals the length of the descriptor list    *)
(* and the number of distinct descriptors in it.                           *)
(***************************************************************************)
UpEvents == {k \in 1..Len(cc.log) : cc.log[k].ev = "Up"}

Positions(upvalues, up) == {i \in 1..Len(upvalues) : upvalues[i] = up}

C28_UpvalueDedup ==
    \A k \in UpEvents :
       LET e == cc.log[k]
       IN /\ IF Positions(e.before.upvalues, e.ins) # {}
             THEN /\ e.after = e.before
                  /\ e.idx + 1 \in Positions(e.before.upvalues, e.ins)
             ELSE /\ e.after.upvalues = Append(e.before.upvalues, e.ins)
                  /\ e.idx = Len(e.before.upvalues)
          /\ e.after.count = Len(e.after.upvalues)
          /\ e.after.count =
                Cardinality({e.after.upvalues[i] : i \in 1..Len(e.after.upvalues)})

\* a request for a descriptor that was registered already, in a context
\* that holds two descriptors
C28_Witness ==
    \E k \in UpEvents :
       /\ Positions(cc.log[k].before.upvalues, cc.log[k].ins) # {}
       /\ Len(cc.log[k].after.upvalues) >= 2
       /\ cc.log[k].after = cc.log[k].before

(***************************************************************************)
(* C29.  Every Function compiled from a Lambda ends with LoadConstant of a *)
(* None constant followed by Return: a call that reaches the end of the    *)
(* body returns None, and a callee frame's ip never leaves its chunk.      *)
(***************************************************************************)
EndsWithReturnNone(f) ==
    LET code == f.chunk.code
        n == Len(code)
    IN /\ n >= 3
       /\ code[n] = OpReturn
       /\ code[n - 2] = OpLoadConstant
       /\ code[n - 1] < Len(f.chunk.constants)
       /\ f.chunk.constants[code[n - 1] + 1] = VNone

FellThrough ==
    /\ last.op = OpReturn
    /\ Len(last.frames) > 1
    /\ LastFrame.ip = Len(LastCode) - 1
    /\ status = "running"

LambdasEndWithReturnNone ==
    Compiled => \A f \in FunctionsIn(TopFunction) \ {TopFunction} : EndsWithReturnNone(f)

FallThroughReturnsNone == FellThrough => Top = VNone

CalleeStaysInChunk == (status = "running" /\ Len(frames) > 1) => InCode(get_ip)

C29_LambdaTail ==
    /\ LambdasEndWithReturnNone
    /\ FallThroughReturnsNone
    /\ CalleeStaysInChunk

(***************************************************************************)
(* C30.  Compiling a Block restores the scope: afterwards scope_depth is   *)
(* what it was before and the locals list holds the same names at the same *)
(* depths as before; the locals the Block's children left at the Block's   *)
(* own depth are the ones declared directly in it, and the code emitted    *)
(* after the last child is exactly one Pop for each of them.  The captured *)
(* flag of a local that was in scope before the Block is left out: a       *)
(* lambda compiled inside the Block sets it (C30_BlockRestoresLocals is    *)
(* the statement with the whole list compared).                            *)
(***************************************************************************)
BlockEvents == {k \in 1..Len(cc.log) : cc.log[k].ev = "Block"}

\* a locals list without the captured flags
Scope(locals) ==
    [i \in 1..Len(locals) |-> [name |-> locals[i].name, depth |-> locals[i].depth]]

C30_BlockRestoresScope ==
    \A k \in BlockEvents :
       LET e == cc.log[k]
           declared == Len(e.inner) - Len(e.before)
       IN /\ e.scope[2] = e.scope[1]
          /\ Scope(e.after) = Scope(e.before)
          /\ declared >= 0
          /\ Scope(SubSeq(e.inner, 1, Len(e.before))) = Scope(e.before)
          /\ \A i \in (Len(e.before) + 1)..Len(e.inner) :
                e.inner[i].depth = e.scope[1] + 1
          /\ e.tail = [i \in 1..declared |-> OpPop]

C30_BlockRestoresLocals ==
    \A k \in BlockEvents :
       /\ cc.log[k].scope[2] = cc.log[k].scope[1]
       /\ cc.log[k].after = cc.log[k].before
       /\ cc.log[k].tail = [i \in 1..(Len(cc.log[k].inner) - Len(cc.log[k].before)) |-> OpPop]

\* a Block that declared two locals, inside a scope that already had one
C30_Witness ==
    \E k \in BlockEvents :
       /\ Len(cc.log[k].before) >= 1
       /\ Len(cc.log[k].inner) = Len(cc.log[k].before) + 2
       /\ cc.log[k].tail = <<OpPop, OpPop>>
       /\ cc.log[k].after = cc.log[k].before

(***************************************************************************)
(* C31.  SetUpvalue i stores the value on top of the operand stack in cell  *)
(* i of the executing closure and pops nothing: the operand stack, the      *)
(* globals, the output and every other cell are as before, and the frames   *)
(* differ only by the ip of the executing one, which moved past the two     *)
(* bytes.  GetUpvalue i pushes a HeapedData naming that same cell, so any   *)
(* such value still on the stack reads as the value just written.           *)
(***************************************************************************)
\* the cell that upvalue LastOperand of the executing closure names
LastUpCell == UpvaluesOf(LastFrame.closure)[LastOperand + 1]

LastUpvalueOK ==
    /\ LastOperand < Len(UpvaluesOf(LastFrame.closure))
    /\ status = "running"

C31_SetUpvalueWritesInPlace ==
    /\ (last.op = OpSetUpvalue /\ LastUpvalueOK /\ Len(last.stack) > 0) =>
           /\ stack = last.stack
           /\ globals = last.globals
           /\ output = last.output
           /\ frames = [last.frames EXCEPT ![Len(last.frames)].ip = @ + 2]
           /\ cells = [last.cells EXCEPT ![LastUpCell] = LastTop]
           /\ \A p \in 1..Len(stack) :
                  stack[p] = VHeapedData(LastUpCell) => ReadSlot(stack[p]) = LastTop
    /\ (last.op = OpGetUpvalue /\ LastUpvalueOK) =>
           /\ stack = Append(last.stack, VHeapedData(LastUpCell))
           /\ cells = last.cells

\* a SetUpvalue changed the content of a cell that a HeapedData pushed
\* earlier, still on the stack below the written value, refers to
C31_Witness ==
    /\ last.op = OpSetUpvalue
    /\ LastUpvalueOK
    /\ Len(stack) >= 2
    /\ \E p \in 1..(Len(stack) - 1) :
           /\ stack[p] = VHeapedData(LastUpCell)
           /\ last.cells[LastUpCell] # cells[LastUpCell]
           /\ ReadSlot(stack[p]) = Top

(***************************************************************************)
(* C32.  Loops are stack-balanced: whenever the back-edge or a Continue of  *)
(* a loop has jumped to its loop_start, and whenever a Break of it has      *)
(* jumped to its loop_end, the operand stack is as high as it was when the  *)
(* loop was first entered in that activation.                               *)
(***************************************************************************)
\* the loop that the AbsJump at address a of f belongs to: the loop it is
\* the back-edge of, or the innermost loop around a Continue or a Break
JumpsOfLoop(f, a) ==
    {j \in MarksOf(f, "Loop") : f.marks[j].back = a}
    \cup {j \in MarksOf(f, "Loop") :
            /\ \E m \in MarksOf(f, "Continue") \cup MarksOf(f, "Break") :
                   f.marks[m].at = a
            /\ Enclosing(f, a) # {}
            /\ j = Innermost(f, a)}

LoopJumped ==
    /\ last.op = OpAbsJump
    /\ status = "running"
    /\ JumpsOfLoop(LastFrame.closure.function, LastFrame.ip) # {}

C32_LoopsBalanced ==
    LoopJumped =>
        \A j \in JumpsOfLoop(LastFrame.closure.function, LastFrame.ip) :
            \A e \in hist.entered :
                (e.act = hist.acts[Len(hist.acts)] /\ e.loop = j) =>
                    Len(stack) = e.height

(***************************************************************************)
(* C33.  Running compiled code, the VM never reaches outside the operand    *)
(* stack: every instruction that pops finds the values it pops, GetLocal    *)
(* and SetLocal address a slot below the stack length at the moment of the  *)
(* access, every local slot that MakeClosure captures exists, and at a      *)
(* Return to a caller stack_start is at most the stack length.              *)
(***************************************************************************)
\* how many values the last instruction pops, from vm.rs 145-403
LastPops ==
    CASE last.op \in {OpReturn, OpPop, OpSetGlobal, OpSetLocal, OpJumpIfFalse} -> 1
      [] last.op \in ArithOps \cup {OpIsEqual} -> 2
      [] last.op = OpSetUpvalue -> 1
      [] last.op = OpCall ->
             IF Len(last.stack) > 0 /\ LastCallee.tag = "Native" THEN 2 ELSE 1
      [] OTHER -> 0

LastSlot == LastFrame.stack_start + LastOperand

\* the local slots named by the descriptors of the last MakeClosure
LastCapturedSlots ==
    LET f == LastFrame.closure.function.chunk.constants[LastOperand + 1]
    IN IF LastOperand >= Len(LastFrame.closure.function.chunk.constants)
          \/ f.tag # "Function"
       THEN {}
       ELSE {LastFrame.stack_start + LastDescriptor(j).idx :
               j \in {i \in 0..(f.f.upvalue_count - 1) :
                        LastDescriptor(i).is_local # 0}}

C33_StackAccessInBounds ==
    (Compiled /\ last.op # NoLast.op) =>
        /\ Len(last.stack) >= LastPops
        /\ last.op = OpGetLocal => (LastSlot >= 0 /\ LastSlot < Len(last.stack))
        /\ last.op = OpSetLocal => (LastSlot >= 0 /\ LastSlot < Len(last.stack) - 1)
        /\ last.op = OpMakeClosure =>
               \A s \in LastCapturedSlots : s >= 0 /\ s < Len(last.stack) + 1
        /\ (last.op = OpReturn /\ Len(last.frames) > 1) =>
               (LastFrame.stack_start >= 0
                /\ LastFrame.stack_start <= Len(last.stack) - 1)

(***************************************************************************)
(* C34.  A function can call itself through its own name.  MakeClosure      *)
(* pushes the new closure before it binds the upvalues, so a Local          *)
(* descriptor that names the slot the closure was pushed into captures a    *)
(* cell holding a closure of the same function with the same upvalue list.  *)
(* Call, finding a HeapedData on top, calls the closure held by its cell:   *)
(* the new frame executes that closure.  The factorial of 2 computed by     *)
(* such a function prints 2.                                                *)
(***************************************************************************)
\* the descriptors of the last MakeClosure that name the slot of the new closure
SelfDescriptors ==
    {j \in 0..(Top.c.function.upvalue_count - 1) :
       /\ LastDescriptor(j).is_local # 0
       /\ LastFrame.stack_start + LastDescriptor(j).idx = Len(last.stack)}

C34_SelfReference ==
    /\ (last.op = OpMakeClosure /\ status = "running") =>
           \A j \in SelfDescriptors :
               /\ cells[UpvaluesOf(Top.c)[j + 1]].tag = "Closure"
               /\ cells[UpvaluesOf(Top.c)[j + 1]].c.function = Top.c.function
               /\ cells[UpvaluesOf(Top.c)[j + 1]].c.upvalues = Top.c.upvalues
    /\ (CalledClosure /\ LastTop.tag = "HeapedData" /\ status = "running") =>
           /\ Len(frames) = Len(last.frames) + 1
           /\ frames[Len(frames)].closure = last.cells[LastTop.cell].c
           /\ frames[Len(frames)].ip = 0
    /\ (core = ProgFactorial /\ status = "ok") => output = <<"2">>

\* a closure called itself through the cell that captured its own slot, and
\* the run that did so ended having printed the result
C34_Witness ==
    /\ core = ProgFactorial
    /\ status = "ok"
    /\ output = <<"2">>
    /\ \E k \in 1..Len(cells) :
           /\ cells[k].tag = "Closure"
           /\ k \in {UpvaluesOf(cells[k].c)[i] : i \in 1..Len(UpvaluesOf(cells[k].c))}

(***************************************************************************)
(* C35.  Compiler and VM agree on the encoding of MakeClosure.  For every   *)
(* compiled Lambda, the constant that the operand byte k of its MakeClosure *)
(* refers to is a Function whose upvalue_count is the number of             *)
(* (is_local, index) pairs emitted after it.  Executed, MakeClosure k       *)
(* leaves the ip 2 + 2 * upvalue_count further, on the first byte of an     *)
(* instruction or at the end of the code, and the closure it pushed has     *)
(* upvalue_count cells.                                                     *)
(***************************************************************************)
LambdaEvents == {k \in 1..Len(cc.log) : cc.log[k].ev = "Lambda"}

LastMade == LastFrame.closure.function.chunk.constants[LastOperand + 1]

C35_MakeClosureEncoding ==
    /\ Compiled =>
           \A k \in LambdaEvents :
               /\ cc.log[k].referred.tag = "Function"
               /\ cc.log[k].referred.f.upvalue_count = cc.log[k].pairs
    /\ (last.op = OpMakeClosure /\ status = "running") =>
           /\ frames[Len(frames)].ip = LastFrame.ip + 2 + 2 * LastMade.f.upvalue_count
           /\ frames[Len(frames)].ip \in
                  InstrStarts(LastFrame.closure.function) \cup {Len(LastCode)}
           /\ Len(UpvaluesOf(Top.c)) = LastMade.f.upvalue_count
           /\ Top.c.function = LastMade.f

(***************************************************************************)
(* C36.  Whenever run is about to dispatch an instruction, current_frame    *)
(* is frames.len() - 1: the executing frame is the top of the call-frame    *)
(* stack.  A Call of a Closure has raised both by one, a Return to a        *)
(* caller has lowered both by one, and a Call of a Native changed neither.  *)
(***************************************************************************)
C36_CurrentFrameIsTop ==
    /\ status = "running" => current_frame = Len(frames) - 1
    /\ (CalledClosure /\ status = "running") =>
           /\ Len(frames) = Len(last.frames) + 1
           /\ current_frame = Len(last.frames)
    /\ (last.op = OpReturn /\ status = "running") =>
           /\ Len(frames) = Len(last.frames) - 1
           /\ current_frame = Len(last.frames) - 2
    /\ (CalledNative /\ status = "running") =>
           /\ Len(frames) = Len(last.frames)
           /\ current_frame = Len(last.frames) - 1

\* a Return from a call made inside a call: two frames were above the
\* top-level one, and the caller's frame is the executing one again
C36_Witness ==
    /\ last.op = OpReturn
    /\ status = "running"
    /\ Len(last.frames) >= 3
    /\ current_frame = Len(frames) - 1
    /\ current_frame >= 1

(***************************************************************************)
(* C37.  The code of Set(name, value) has the same net effect on the height *)
(* of the operand stack whichever way name resolves: SetLocal, SetUpvalue   *)
(* and SetGlobal each consume the value that the code of value pushed, so   *)
(* after each of them the stack is one lower than before.                   *)
(***************************************************************************)
SetOps == {OpSetLocal, OpSetUpvalue, OpSetGlobal}

====
